---- MODULE Spec2Model ----
(***************************************************************************)
(* A model of the build-and-publish core of tola-ssg:                      *)
(*   - the Orchestrator (utils/build.rs process_files) with its per-file   *)
(*     handlers and the deferred image-optimization threads they spawn;    *)
(*   - the vector-image decisions of the HTML rewriter and of the deferred *)
(*     job (process_svg_in_html, compress_svgs);                           *)
(*   - the output-path resolution of process_content and the slug policy;  *)
(*   - the command dispatcher, the snapshot commit and the publisher.      *)
(* Each subsystem has a specification of its own over its own variables;   *)
(* the variables of the other subsystems stay at their idle values.        *)
(***************************************************************************)
EXTENDS Integers, Sequences, FiniteSets, TLC

VARIABLES
    \* ---- Orchestrator (process_files) ----
    kind,           \* per file: "page" (a .typ source) or "asset" (any other file)
    fails,          \* per file: where its handler fails: "no", "early", "late"
    extract_type,   \* config.build.typst.svg.extract_type
    hstate,         \* per file: the handler's position
    full,           \* rayon's short-circuit flag of collect::<Result<_>>
    saved_error,    \* the error kept by collect::<Result<_>> (0: none)
    thread,         \* per file: the deferred thread spawned by process_html
    child,          \* per file: the external raster tool process
    html_written,   \* per file: fs::write(&html_path, ..) happened
    svg_written,    \* per file: the svg-N file of the page exists
    pf,             \* process_files' position
    join_idx        \* the next handle the join loop waits for

varsFiles == <<kind, fails, hstate, full, saved_error, thread, child,
               html_written, svg_written, pf, join_idx>>

VARIABLES
    \* ---- HTML rewriter / image optimizer (one page) ----
    inline_max_size, \* config.build.typst.svg.inline_max_size, as [num, suffix]
    raw_lens,        \* per <svg> met: the byte length of the padded fragment
    svgs,            \* the Svg list handed to compress_svgs (data lengths)
    imgs,            \* the file names of the emitted <img src>, in order
    inline_svgs,     \* how many <svg> were left inline
    svg_cnt,         \* process_html's svg_cnt
    job,             \* "rewriting", "spawned" (the deferred thread runs)
    compressed,      \* the indices compress_svgs has finished
    out_files        \* the svg-N files on disk

varsSvg == <<inline_max_size, raw_lens, svgs, imgs, inline_svgs, svg_cnt, job,
             compressed, out_files>>

VARIABLES
    \* ---- Content transform: output paths and the output tree ----
    slug_path,       \* config.build.slug.path
    base_path,       \* config.build.base_path, as path components
    content_done,    \* per source processed: its html_path and its result
    dirs,            \* the directories that exist
    html_files       \* the HTML files on disk, each with the source it holds

varsContent == <<slug_path, base_path, content_done, dirs, html_files>>

VARIABLES
    \* ---- Command dispatcher, deploy_site, push ----
    command,         \* cli.command: "Build" or "Deploy"
    provider,        \* config.deploy.provider
    force,           \* config.deploy.force
    url_in_config,   \* config.deploy.github_provider.url (its host part)
    token,           \* the trimmed content of the token file ("" without one)
    other_remote,    \* the repository has a remote that is not `origin`
    origin,          \* the URL of the remote `origin` on disk, or NoRemote
    origin_at_call,  \* the value of origin when push was called
    build_res,       \* the build task and the result of build_site
    posts_res,       \* build_site's content pipeline: "none", "running", "ok", "err"
    assets_res,      \* build_site's asset pipeline, likewise
    rss_res,         \* the rss task and its result
    commit_res,      \* commit_all: "none", "ok", "err"
    push_res,        \* push: "none", "ok", "cmd_err", "drift", "panic"
    deploy_res,      \* what deploy_site returned: "none", "ok", "err"
    main_pc,         \* main's position
    exit_code,       \* the exit code of the process (-1 while it runs)
    branch_in_config,\* config.deploy.github_provider.branch
    head_branch,     \* the branch HEAD of the output repository points to
    tips,            \* per local branch: its tip commit, 0 when unborn
    commits,         \* the commit objects written, the n-th having id n
    deploys          \* the runs of the command so far

varsDeploy == <<command, provider, force, url_in_config, token, other_remote,
                origin, origin_at_call, build_res, posts_res, assets_res,
                rss_res, commit_res, push_res, deploy_res, main_pc, exit_code,
                branch_in_config, head_branch, tips, commits, deploys>>

VARIABLES
    \* ---- Link rewriting and the top-level asset-name cache ----
    slug_fragment,   \* config.build.slug.fragment
    assets_dir,      \* the names in the assets directory on disk
    assets_readable, \* whether fs::read_dir of the assets directory succeeds
    asset_cache,     \* ASSET_TOP_LEVELS: [set, val]
    page,            \* the last page rewritten: a heading and its two links
    link,            \* the last single href/src rewritten: [value, out]
    tag,             \* the last start tag rewritten: [attrs, panicked, out]
    wpc,             \* per page worker: its position in get_asset_top_levels
    got,             \* per page worker: the values its reads returned
    init_runs,       \* how often the initializing closure has run
    first_val        \* the value the first initialization computed

varsLink == <<slug_fragment, assets_dir, assets_readable, asset_cache, page,
              link, tag, wpc, got, init_runs, first_val>>

VARIABLES
    \* ---- Snapshot builder: commit_all and build_tree_from_dir ----
    fs_files,        \* the files under the repository root, as paths
    fs_dirs,         \* the directories under the repository root, as paths
    git_ignore,      \* the patterns of the .gitignore at the root
    trees,           \* the root tree of every snapshot built so far
    index,           \* the entries of the index file commit_all wrote last
    first_order,     \* the order read_dir listed names in, first snapshot
    reordered        \* a later snapshot met another order

varsTree == <<fs_files, fs_dirs, git_ignore, trees, index, first_order,
              reordered>>

VARIABLES
    \* ---- wait_until_stable on one watched file ----
    max_retries,     \* the max_retries argument
    file_size,       \* the length of the file on disk
    file_exists,     \* whether fs::metadata(path) succeeds
    last_size,       \* wait_until_stable's last_size
    retries,         \* wait_until_stable's retries
    samples,         \* every length fs::metadata returned, in order
    wus_pc,          \* position: "idle", "call", "loop", "done"
    wus_res          \* the result: "none", "ok", "unstable", "io"

varsStable == <<max_retries, file_size, file_exists, last_size, retries,
                samples, wus_pc, wus_res>>

VARIABLES
    \* ---- compress_svgs under a failing raster tool (one page) ----
    pool_threads,    \* rayon::current_num_threads() of the global pool
    leaves,          \* the sequential leaves par_iter was split into
    leaf_next,       \* per leaf: the next index its fold takes
    leaf_panicked,   \* the leaves whose fold unwound
    failed,          \* the images whose tool could not be spawned or fed
    c_html,          \* process_content has written the page's HTML
    c_join           \* process_files' join of the page's handle: "none", "ok"

varsCompress == <<pool_threads, leaves, leaf_next, leaf_panicked, failed,
                  c_html, c_join>>

VARIABLES
    \* ---- Live-reload server: serve_site and start_server ----
    interface_ok,    \* config.serve.interface parses as an IP address
    port_busy,       \* another process holds config.serve.port
    srv_pc,          \* the server task: "idle", "start", "serving", "returned"
    srv_err,         \* the last error start_server returned, outermost first
    bind_calls,      \* how often TcpListener::bind was called
    retry_waits,     \* how often wait_for_retrying ran
    server_ready,    \* the AtomicBool server_ready
    ready_polls,     \* the one-second sleeps of wait_for_server_ready
    watcher_pc,      \* the watcher thread: "idle", "waiting", "watching", "ended"
    watch_enabled,   \* config.serve.watch
    ctrl_c,          \* the interrupt signal was delivered
    serve_res        \* what serve_site returned: "none", "ok", "err"

varsServe == <<interface_ok, port_busy, srv_pc, srv_err, bind_calls,
               retry_waits, server_ready, ready_polls, watcher_pc,
               watch_enabled, ctrl_c, serve_res>>

VARIABLES
    \* ---- Watcher: watch_for_changes_blocking and process_watched_files ----
    w_now,           \* Instant::now(), in milliseconds
    w_queue,         \* the events in the channel rx, oldest first
    last_events,     \* the map path -> time of the last accepted event
    src_ver,         \* per path: how often the source file was changed
    out_ver,         \* per path: the source version its output holds (0: none)
    w_pc,            \* the loop: "idle", "recv", "handling", "handled"
    w_batch,         \* the paths handle_event was called with
    w_started,       \* when the running handler was started
    w_done,          \* the paths of the batch whose handler ran
    w_failed,        \* the paths of the batch whose handler returned Err
    w_skip,          \* the last event path the debounce filter dropped
    w_unbuilt        \* the paths a handler run was cut short for or failed on

varsWatch == <<w_now, w_queue, last_events, src_ver, out_ver, w_pc, w_batch,
               w_started, w_done, w_failed, w_skip, w_unbuilt>>

VARIABLES
    \* ---- One build: the content and the asset pipeline on shared paths ----
    content_files,   \* the non-markup files of the content directory
    asset_files,     \* the files of the assets directory
    c_pc,            \* per content file: the position of process_content
    a_pc,            \* per asset: the position of process_asset
    out,             \* per output path: the file there, [ino, data]
    c_fd,            \* per content file: the inode fs::copy writes to
    a_fd,            \* per asset: the inode fs::copy writes to
    next_ino,        \* the next inode number of the output file system
    clobbered        \* the output paths where one pipeline hit the other's file

varsRace == <<content_files, asset_files, c_pc, a_pc, out, c_fd, a_fd,
              next_ino, clobbered>>

vars == <<extract_type, varsFiles, varsSvg, varsContent, varsDeploy, varsLink,
          varsTree,
          varsStable,
          varsCompress,
          varsServe,
          varsWatch,
          varsRace>>

\* The number of files collect_files discovers.
NumFiles == 3
\* The size of the rayon pool that runs the handlers.
NumThreads == 2

Files == 1..NumFiles

ExtractSvgType == {"Builtin", "Magick", "Ffmpeg", "JustSvg", "Embedded"}

----------------------------------------------------------------------------
(* Orchestrator: process_files, the handlers, the deferred threads.        *)

Running == {"compile", "write"}

NoneRunning == \A f \in Files : hstate[f] \notin Running

IdleFiles ==
    /\ kind = <<>>
    /\ fails = <<>>
    /\ hstate = <<>>
    /\ full = FALSE
    /\ saved_error = 0
    /\ thread = <<>>
    /\ child = <<>>
    /\ html_written = <<>>
    /\ svg_written = <<>>
    /\ pf = "idle"
    /\ join_idx = 1

IdleSvg ==
    /\ inline_max_size = [num |-> 20, suffix |-> "KB"]
    /\ raw_lens = <<>>
    /\ svgs = <<>>
    /\ imgs = <<>>
    /\ inline_svgs = 0
    /\ svg_cnt = 0
    /\ job = "idle"
    /\ compressed = {}
    /\ out_files = {}

IdleContent ==
    /\ slug_path = "Safe"
    /\ base_path = <<>>
    /\ content_done = {}
    /\ dirs = {}
    /\ html_files = {}

\* No remote named origin (and, for origin_at_call, no call of push yet).
NoRemote == [token |-> "", host |-> "none"]

IdleDeploy ==
    /\ command = "none"
    /\ provider = "github"
    /\ force = FALSE
    /\ url_in_config = "X"
    /\ token = ""
    /\ other_remote = FALSE
    /\ origin = NoRemote
    /\ origin_at_call = NoRemote
    /\ build_res = "none"
    /\ posts_res = "none"
    /\ assets_res = "none"
    /\ rss_res = "none"
    /\ commit_res = "none"
    /\ push_res = "none"
    /\ deploy_res = "none"
    /\ main_pc = "idle"
    /\ exit_code = -1
    /\ branch_in_config = "main"
    /\ head_branch = "main"
    /\ tips = <<>>
    /\ commits = <<>>
    /\ deploys = 0

IdleTree ==
    /\ fs_files = {}
    /\ fs_dirs = {}
    /\ git_ignore = {}
    /\ trees = <<>>
    /\ index = <<>>
    /\ first_order = <<>>
    /\ reordered = FALSE

IdleStable ==
    /\ max_retries = 0
    /\ file_size = 0
    /\ file_exists = TRUE
    /\ last_size = 0
    /\ retries = 0
    /\ samples = <<>>
    /\ wus_pc = "idle"
    /\ wus_res = "none"

IdleCompress ==
    /\ pool_threads = 1
    /\ leaves = <<>>
    /\ leaf_next = <<>>
    /\ leaf_panicked = {}
    /\ failed = {}
    /\ c_html = FALSE
    /\ c_join = "none"

IdleServe ==
    /\ interface_ok = TRUE
    /\ port_busy = FALSE
    /\ srv_pc = "idle"
    /\ srv_err = <<>>
    /\ bind_calls = 0
    /\ retry_waits = 0
    /\ server_ready = FALSE
    /\ ready_polls = 0
    /\ watcher_pc = "idle"
    /\ watch_enabled = TRUE
    /\ ctrl_c = FALSE
    /\ serve_res = "none"

NoSkip == [path |-> "", at |-> 0, last |-> 0]

IdleWatch ==
    /\ w_now = 0
    /\ w_queue = <<>>
    /\ last_events = <<>>
    /\ src_ver = <<>>
    /\ out_ver = <<>>
    /\ w_pc = "idle"
    /\ w_batch = <<>>
    /\ w_started = 0
    /\ w_done = {}
    /\ w_failed = {}
    /\ w_skip = NoSkip
    /\ w_unbuilt = {}

IdleRace ==
    /\ content_files = {}
    /\ asset_files = {}
    /\ c_pc = <<>>
    /\ a_pc = <<>>
    /\ out = <<>>
    /\ c_fd = <<>>
    /\ a_fd = <<>>
    /\ next_ino = 1
    /\ clobbered = {}

\* ASSET_TOP_LEVELS before its first access.
Unset == [set |-> FALSE, val |-> {}]

NoLink == [value |-> <<>>, out |-> <<>>]

NoTag == [attrs |-> <<>>, panicked |-> FALSE, out |-> <<>>]

NoPage == [text |-> <<>>, id |-> <<>>, hash |-> <<>>, path |-> <<>>]

IdleLink ==
    /\ slug_fragment = "Safe"
    /\ assets_dir = {}
    /\ assets_readable = TRUE
    /\ asset_cache = Unset
    /\ page = NoPage
    /\ link = NoLink
    /\ tag = NoTag
    /\ wpc = <<>>
    /\ got = <<>>
    /\ init_runs = 0
    /\ first_val = {}

\* collect_files has run; the parallel map is about to start.
InitFiles ==
    /\ IdleRace
    /\ IdleWatch
    /\ IdleServe
    /\ IdleCompress
    /\ IdleStable
    /\ IdleSvg
    /\ IdleTree
    /\ IdleContent
    /\ IdleDeploy
    /\ IdleLink
    /\ kind \in [Files -> {"page", "asset"}]
    /\ fails \in [Files -> {"no", "early", "late"}]
    /\ \A f \in Files : kind[f] = "asset" => fails[f] # "late"
    /\ extract_type \in ExtractSvgType
    /\ hstate = [f \in Files |-> "pending"]
    /\ full = FALSE
    /\ saved_error = 0
    /\ thread = [f \in Files |-> "none"]
    /\ child = [f \in Files |-> "none"]
    /\ html_written = [f \in Files |-> FALSE]
    /\ svg_written = [f \in Files |-> FALSE]
    /\ pf = "par_iter"
    /\ join_idx = 1

\* An item yields Err: collect::<Result<_>> keeps the first error and raises
\* the flag that stops the remaining items from being started.
SaveError(f) ==
    /\ full' = TRUE
    /\ saved_error' = IF saved_error = 0 THEN f ELSE saved_error

\* A pool thread takes an item of files.par_iter(): only while the flag is down.
HandlerStart(f) ==
    /\ pf = "par_iter"
    /\ hstate[f] = "pending"
    /\ ~full
    /\ Cardinality({g \in Files : hstate[g] \in Running}) < NumThreads
    /\ hstate' = [hstate EXCEPT ![f] = "compile"]
    /\ UNCHANGED <<kind, fails, extract_type, full, saved_error, thread, child,
                   html_written, svg_written, pf, join_idx>>
    /\ UNCHANGED <<varsSvg, varsContent, varsDeploy, varsLink, varsTree,
                   varsStable, varsCompress, varsServe, varsWatch, varsRace>>

\* process_content up to process_html: the copy of a non-markup file, or the
\* compiler call followed by the rewrite, which spawns the deferred thread.
HandlerCompile(f) ==
    /\ hstate[f] = "compile"
    /\ IF fails[f] = "early"
       THEN /\ hstate' = [hstate EXCEPT ![f] = "err"]
            /\ SaveError(f)
            /\ UNCHANGED <<thread, html_written>>
       ELSE IF kind[f] = "asset"
       THEN /\ hstate' = [hstate EXCEPT ![f] = "ok"]
            /\ html_written' = [html_written EXCEPT ![f] = TRUE]
            /\ UNCHANGED <<full, saved_error, thread>>
       ELSE /\ hstate' = [hstate EXCEPT ![f] = "write"]
            /\ thread' = [thread EXCEPT ![f] = "running"]
            /\ UNCHANGED <<full, saved_error, html_written>>
    /\ UNCHANGED <<kind, fails, extract_type, child, svg_written, pf, join_idx>>
    /\ UNCHANGED <<varsSvg, varsContent, varsDeploy, varsLink, varsTree,
                   varsStable, varsCompress, varsServe, varsWatch, varsRace>>

\* process_content's fs::write(&html_path, ..)? and its Ok(Some(handle)).
HandlerWrite(f) ==
    /\ hstate[f] = "write"
    /\ IF fails[f] = "late"
       THEN /\ hstate' = [hstate EXCEPT ![f] = "err"]
            /\ SaveError(f)
            /\ UNCHANGED html_written
       ELSE /\ hstate' = [hstate EXCEPT ![f] = "ok"]
            /\ html_written' = [html_written EXCEPT ![f] = TRUE]
            /\ UNCHANGED <<full, saved_error>>
    /\ UNCHANGED <<kind, fails, extract_type, thread, child, svg_written, pf,
                   join_idx>>
    /\ UNCHANGED <<varsSvg, varsContent, varsDeploy, varsLink, varsTree,
                   varsStable, varsCompress, varsServe, varsWatch, varsRace>>

\* The parallel collect ends when no item runs and none can be started any
\* more; `?` returns the saved error at once, dropping the handles collected.
ParIterDone ==
    /\ pf = "par_iter"
    /\ NoneRunning
    /\ full \/ \A f \in Files : hstate[f] # "pending"
    /\ hstate' = [f \in Files |->
                    IF hstate[f] = "pending" THEN "skipped" ELSE hstate[f]]
    /\ pf' = IF saved_error # 0 THEN "err" ELSE "join"
    /\ UNCHANGED <<kind, fails, extract_type, full, saved_error, thread, child,
                   html_written, svg_written, join_idx>>
    /\ UNCHANGED <<varsSvg, varsContent, varsDeploy, varsLink, varsTree,
                   varsStable, varsCompress, varsServe, varsWatch, varsRace>>

\* for handle in handles.into_iter().flatten() { handle.join().ok(); }
\* A None (no thread) is skipped; a join waits for the thread to end and
\* discards a panic.
JoinHandle ==
    /\ pf = "join"
    /\ join_idx <= NumFiles
    /\ thread[join_idx] \in {"none", "done", "panicked"}
    /\ join_idx' = join_idx + 1
    /\ UNCHANGED <<kind, fails, extract_type, hstate, full, saved_error, thread,
                   child, html_written, svg_written, pf>>
    /\ UNCHANGED <<varsSvg, varsContent, varsDeploy, varsLink, varsTree,
                   varsStable, varsCompress, varsServe, varsWatch, varsRace>>

ReturnOk ==
    /\ pf = "join"
    /\ join_idx > NumFiles
    /\ pf' = "ok"
    /\ UNCHANGED <<kind, fails, extract_type, hstate, full, saved_error, thread,
                   child, html_written, svg_written, join_idx>>
    /\ UNCHANGED <<varsSvg, varsContent, varsDeploy, varsLink, varsTree,
                   varsStable, varsCompress, varsServe, varsWatch, varsRace>>

\* compress_svgs, the job of the deferred thread, for the image of a page.
\* JustSvg and Builtin write the file themselves.
CompressWrite(f) ==
    /\ thread[f] = "running"
    /\ extract_type \in {"JustSvg", "Builtin"}
    /\ svg_written' = [svg_written EXCEPT ![f] = TRUE]
    /\ thread' = [thread EXCEPT ![f] = "done"]
    /\ UNCHANGED <<kind, fails, extract_type, hstate, full, saved_error, child,
                   html_written, pf, join_idx>>
    /\ UNCHANGED <<varsSvg, varsContent, varsDeploy, varsLink, varsTree,
                   varsStable, varsCompress, varsServe, varsWatch, varsRace>>

\* Magick and Ffmpeg: run_command_with_stdin spawns the tool and returns its
\* stdin; the job writes the bytes and ends. Nothing waits for the tool.
CompressSpawnTool(f) ==
    /\ thread[f] = "running"
    /\ extract_type \in {"Magick", "Ffmpeg"}
    /\ child' = [child EXCEPT ![f] = "running"]
    /\ thread' = [thread EXCEPT ![f] = "done"]
    /\ UNCHANGED <<kind, fails, extract_type, hstate, full, saved_error,
                   html_written, svg_written, pf, join_idx>>
    /\ UNCHANGED <<varsSvg, varsContent, varsDeploy, varsLink, varsTree,
                   varsStable, varsCompress, varsServe, varsWatch, varsRace>>

\* Embedded: nothing was extracted, the job has no image.
CompressNothing(f) ==
    /\ thread[f] = "running"
    /\ extract_type = "Embedded"
    /\ thread' = [thread EXCEPT ![f] = "done"]
    /\ UNCHANGED <<kind, fails, extract_type, hstate, full, saved_error, child,
                   html_written, svg_written, pf, join_idx>>
    /\ UNCHANGED <<varsSvg, varsContent, varsDeploy, varsLink, varsTree,
                   varsStable, varsCompress, varsServe, varsWatch, varsRace>>

\* Every failure inside the job is an unwrap(): the thread panics.
CompressPanic(f) ==
    /\ thread[f] = "running"
    /\ extract_type # "Embedded"
    /\ thread' = [thread EXCEPT ![f] = "panicked"]
    /\ UNCHANGED <<kind, fails, extract_type, hstate, full, saved_error, child,
                   html_written, svg_written, pf, join_idx>>
    /\ UNCHANGED <<varsSvg, varsContent, varsDeploy, varsLink, varsTree,
                   varsStable, varsCompress, varsServe, varsWatch, varsRace>>

\* The external tool ends, having written its output file or not.
ToolExit(f) ==
    /\ child[f] = "running"
    /\ \E wrote \in BOOLEAN :
         svg_written' = [svg_written EXCEPT ![f] = wrote]
    /\ child' = [child EXCEPT ![f] = "exited"]
    /\ UNCHANGED <<kind, fails, extract_type, hstate, full, saved_error, thread,
                   html_written, pf, join_idx>>
    /\ UNCHANGED <<varsSvg, varsContent, varsDeploy, varsLink, varsTree,
                   varsStable, varsCompress, varsServe, varsWatch, varsRace>>

NextFiles ==
    \/ \E f \in Files : HandlerStart(f)
    \/ \E f \in Files : HandlerCompile(f)
    \/ \E f \in Files : HandlerWrite(f)
    \/ ParIterDone
    \/ JoinHandle
    \/ ReturnOk
    \/ \E f \in Files : CompressWrite(f)
    \/ \E f \in Files : CompressSpawnTool(f)
    \/ \E f \in Files : CompressNothing(f)
    \/ \E f \in Files : CompressPanic(f)
    \/ \E f \in Files : ToolExit(f)

Spec == InitFiles /\ [][NextFiles]_vars

\* C1: Orchestrator fail-slow: when the handler fails for exactly one of the
\* files discovered, process_files has, when it returns, run the handler to
\* completion for every other file, and it returns that one file's error.
C1_FailSlow ==
    (pf \in {"ok", "err"} /\ Cardinality({f \in Files : fails[f] # "no"}) = 1)
        => /\ \A f \in Files : fails[f] = "no" => hstate[f] = "ok"
           /\ pf = "err"
           /\ saved_error \in Files
           /\ fails[saved_error] # "no"

\* C2: process_files returns, with Ok or with an error, only after all the
\* work it dispatched has ended: no handler runs and no deferred thread
\* spawned by a handler runs any more.
C2_ReturnsAfterAllWork ==
    pf \in {"ok", "err"}
        => \A f \in Files : hstate[f] \notin Running /\ thread[f] # "running"

\* C9: when the build's process_files returns Ok, the deferred job of every
\* page has run to completion and the svg-N file its <img> refers to exists.
C9_DeferredCompleteOnOk ==
    pf = "ok"
        => \A f \in Files :
             kind[f] = "page"
                => /\ thread[f] = "done"
                   /\ extract_type # "Embedded" => svg_written[f]

----------------------------------------------------------------------------
(* HTML rewriter and image optimizer: the <svg> elements of one page.      *)

\* The most <svg> elements a page holds.
MaxSvgs == 2

SizeSuffixes == {"B", "KB", "MB"}

\* inline_max_size as written in the configuration: digits (num < 0 stands
\* for a prefix that is not a number) and one of the suffixes validate admits.
InlineMaxSizes == [num : {-1, 20}, suffix : SizeSuffixes]

\* get_inline_max_size with decimal multipliers.
get_inline_max_size_decimal(size_str) ==
    LET multiplier == IF size_str.suffix = "MB" THEN 1000 * 1000
                      ELSE IF size_str.suffix = "KB" THEN 1000
                      ELSE 1
        value == IF size_str.num < 0 THEN 0 ELSE size_str.num
    IN  multiplier * value

get_inline_max_size(size_str) ==
    LET multiplier == IF size_str.suffix = "MB" THEN 1024 * 1024
                      ELSE IF size_str.suffix = "KB" THEN 1024
                      ELSE 1
        value == IF size_str.num < 0 THEN 0 ELSE size_str.num
    IN  multiplier * value

\* The byte lengths tried for a fragment: two ordinary sizes and the sizes
\* at the threshold, none shorter than the shortest element, <svg></svg>.
SvgLens(max) == {n \in {19000, 25000, max - 1, max} : n >= 11}

SvgName(cnt, ext) == [n |-> cnt, ext |-> ext]

\* ImgFilename with the threshold taken as an inclusive bound.
ImgFilenameInclusive(et, size, max, cnt) ==
    IF et = "JustSvg" THEN SvgName(cnt, "svg")
    ELSE IF size <= max THEN SvgName(cnt, "svg")
    ELSE SvgName(cnt, "avif")

\* process_svg_in_html: the name put into <img src>.
ImgFilename(et, size, max, cnt) ==
    IF et = "JustSvg" THEN SvgName(cnt, "svg")
    ELSE IF size < max THEN SvgName(cnt, "svg")
    ELSE SvgName(cnt, "avif")

\* compress_svgs: the name of the file the job writes.
JobFilename(et, size, max, cnt) ==
    IF et = "JustSvg" THEN SvgName(cnt, "svg")
    ELSE IF size < max THEN SvgName(cnt, "svg")
    ELSE SvgName(cnt, "avif")

\* process_html starts on the compiler's output for one page.
InitSvg ==
    /\ IdleRace
    /\ IdleWatch
    /\ IdleServe
    /\ IdleCompress
    /\ IdleStable
    /\ IdleFiles
    /\ IdleTree
    /\ IdleContent
    /\ IdleDeploy
    /\ IdleLink
    /\ extract_type \in ExtractSvgType
    /\ inline_max_size \in InlineMaxSizes
    /\ raw_lens = <<>>
    /\ svgs = <<>>
    /\ imgs = <<>>
    /\ inline_svgs = 0
    /\ svg_cnt = 0
    /\ job = "rewriting"
    /\ compressed = {}
    /\ out_files = {}

\* process_svg_in_html for the next <svg> of the page: `raw` is the length of
\* the padded fragment, `usvg` the length of its usvg serialization, which is
\* what the Svg handed to the job holds.
ProcessSvgInHtml(raw, usvg) ==
    /\ job = "rewriting"
    /\ Len(raw_lens) < MaxSvgs
    /\ raw_lens' = Append(raw_lens, raw)
    /\ IF extract_type = "Embedded"
       THEN /\ inline_svgs' = inline_svgs + 1
            /\ UNCHANGED <<svgs, imgs, svg_cnt>>
       ELSE /\ imgs' = Append(imgs, ImgFilename(extract_type, raw,
                                    get_inline_max_size(inline_max_size), svg_cnt))
            /\ svg_cnt' = svg_cnt + 1
            /\ svgs' = Append(svgs, usvg)
            /\ UNCHANGED inline_svgs
    /\ UNCHANGED <<extract_type, inline_max_size, job, compressed, out_files>>
    /\ UNCHANGED <<varsFiles, varsContent, varsDeploy, varsLink, varsTree,
                   varsStable, varsCompress, varsServe, varsWatch, varsRace>>

\* The end of the input: process_html spawns the thread that runs compress_svgs.
SpawnCompress ==
    /\ job = "rewriting"
    /\ job' = "spawned"
    /\ UNCHANGED <<extract_type, inline_max_size, raw_lens, svgs, imgs,
                   inline_svgs, svg_cnt, compressed, out_files>>
    /\ UNCHANGED <<varsFiles, varsContent, varsDeploy, varsLink, varsTree,
                   varsStable, varsCompress, varsServe, varsWatch, varsRace>>

\* compress_svgs: one item of svgs.par_iter().enumerate(), in any order.
CompressSvg(i) ==
    /\ job = "spawned"
    /\ i \in 1..Len(svgs)
    /\ i \notin compressed
    /\ extract_type # "Embedded"
    /\ out_files' = out_files \cup
          {JobFilename(extract_type, svgs[i],
                       get_inline_max_size(inline_max_size), i - 1)}
    /\ compressed' = compressed \cup {i}
    /\ UNCHANGED <<extract_type, inline_max_size, raw_lens, svgs, imgs,
                   inline_svgs, svg_cnt, job>>
    /\ UNCHANGED <<varsFiles, varsContent, varsDeploy, varsLink, varsTree,
                   varsStable, varsCompress, varsServe, varsWatch, varsRace>>

NextSvg ==
    \/ \E raw, usvg \in SvgLens(get_inline_max_size(inline_max_size)) :
          ProcessSvgInHtml(raw, usvg)
    \/ SpawnCompress
    \/ \E i \in 1..MaxSvgs : CompressSvg(i)

SpecSvg == InitSvg /\ [][NextSvg]_vars

SizeBased == extract_type \in {"Builtin", "Magick", "Ffmpeg"}

\* C8: the name in the emitted <img src> of every extracted image is the name
\* of the file the deferred job writes for it, and every extracted image is
\* referenced by exactly one <img>.
C8_ImgNameIsFileName ==
    /\ Len(imgs) = Len(svgs)
    /\ \A i, j \in 1..Len(imgs) : i # j => imgs[i] # imgs[j]
    /\ \A i \in compressed : imgs[i] \in out_files

\* C11: the image decision rule: under Embedded every <svg> stays inline and
\* nothing is extracted; under JustSvg every <svg> is named .svg; under any
\* other policy it is named .svg when its byte length is below the threshold
\* and .avif otherwise, the threshold of "<N>KB" being N * 1024 (20KB: 19000
\* bytes give .svg, 25000 bytes give .avif). The N-th extracted image is
\* svg-N.
C11_DecisionRule ==
    /\ extract_type = "Embedded"
          => imgs = <<>> /\ svgs = <<>> /\ inline_svgs = Len(raw_lens)
    /\ extract_type # "Embedded"
          => inline_svgs = 0 /\ Len(imgs) = Len(raw_lens)
    /\ extract_type = "JustSvg"
          => \A i \in 1..Len(imgs) : imgs[i] = SvgName(i - 1, "svg")
    /\ (SizeBased /\ inline_max_size.suffix = "KB" /\ inline_max_size.num >= 0)
          => \A i \in 1..Len(imgs) :
                imgs[i] = SvgName(i - 1,
                            IF raw_lens[i] < inline_max_size.num * 1024
                            THEN "svg" ELSE "avif")
    /\ (SizeBased /\ inline_max_size = [num |-> 20, suffix |-> "KB"])
          => \A i \in 1..Len(imgs) :
                /\ raw_lens[i] = 19000 => imgs[i].ext = "svg"
                /\ raw_lens[i] = 25000 => imgs[i].ext = "avif"

C11_Witness ==
    /\ SizeBased
    /\ inline_max_size = [num |-> 20, suffix |-> "KB"]
    /\ \E i, j \in 1..Len(imgs) :
          /\ raw_lens[i] = 19000 /\ imgs[i].ext = "svg"
          /\ raw_lens[j] = 25000 /\ imgs[j].ext = "avif"

\* C10 as stated: under a size-based policy a fragment whose length equals
\* the threshold is kept as .svg.
C10_ThresholdKeptAsSvg ==
    SizeBased
        => \A i \in 1..Len(imgs) :
             raw_lens[i] = get_inline_max_size(inline_max_size)
                => imgs[i].ext = "svg"

\* C10 as amended: under a size-based policy each of the two decisions names
\* the image .avif when the length it measures equals the threshold, and
\* .svg when that length is strictly below it.
C10_ThresholdRasterized ==
    SizeBased
        => LET max == get_inline_max_size(inline_max_size) IN
           /\ \A i \in 1..Len(imgs) :
                /\ raw_lens[i] = max => imgs[i].ext = "avif"
                /\ raw_lens[i] < max => imgs[i].ext = "svg"
           /\ \A i \in compressed :
                /\ svgs[i] = max => SvgName(i - 1, "avif") \in out_files
                /\ svgs[i] < max => SvgName(i - 1, "svg") \in out_files

C10_Witness ==
    /\ SizeBased
    /\ \E i \in compressed :
         /\ raw_lens[i] = get_inline_max_size(inline_max_size)
         /\ svgs[i] = get_inline_max_size(inline_max_size)
         /\ imgs[i].ext = "avif"

----------------------------------------------------------------------------
(* Content transform: the slug policy and process_content's output path.   *)
(* A text is a sequence of characters; a run of lower-case letters that no *)
(* operation splits ("index", "html", "public") is written as one element. *)
(* A path is a sequence of components, each a text.                        *)

SlugMode == {"On", "Safe", "No"}

FORBIDDEN == {"<", ">", ":", "|", "?", "*", "#", "\\", "(", ")", "[", "]",
              "\t", "\r", "\n"}

IsWhitespace(c) == c \in {" ", "\t", "\r", "\n"}

IsUpper(c) == c \in {"A", "B"}

Lower(c) == IF c = "A" THEN "a" ELSE IF c = "B" THEN "b" ELSE c

IsAlnum(c) == c \notin (FORBIDDEN \cup {" ", "_", "-", ".", "/", "!", "+"})

RECURSIVE TrimStart(_)
TrimStart(text) ==
    IF text # <<>> /\ IsWhitespace(Head(text)) THEN TrimStart(Tail(text))
    ELSE text

RECURSIVE TrimEnd(_)
TrimEnd(text) ==
    IF text # <<>> /\ IsWhitespace(text[Len(text)])
    THEN TrimEnd(SubSeq(text, 1, Len(text) - 1))
    ELSE text

\* text.trim(), drop the forbidden characters, whitespace becomes '_'.
sanitize_text(text) ==
    LET kept == SelectSeq(TrimEnd(TrimStart(text)), LAMBDA c : c \notin FORBIDDEN)
    IN  [i \in 1..Len(kept) |-> IF IsWhitespace(kept[i]) THEN "_" ELSE kept[i]]

\* Every component sanitized; PathBuf::from_iter pushes them one by one, and
\* pushing an empty component adds no component.
sanitize_path(path) ==
    SelectSeq([i \in 1..Len(path) |-> sanitize_text(path[i])],
              LAMBDA comp : comp # <<>>)

\* path.to_string_lossy(): the components joined by '/'.
RECURSIVE PathString(_)
PathString(path) ==
    IF path = <<>> THEN <<>>
    ELSE IF Len(path) = 1 THEN path[1]
    ELSE path[1] \o <<"/">> \o PathString(Tail(path))

\* slug::slugify: letters and digits in lower case, every run of other
\* characters one '-', none at the start and none at the end.
RECURSIVE SlugChars(_, _)
SlugChars(text, slug) ==
    IF text = <<>> THEN slug
    ELSE IF IsAlnum(Head(text))
         THEN SlugChars(Tail(text), Append(slug, Lower(Head(text))))
    ELSE IF slug # <<>> /\ slug[Len(slug)] # "-"
         THEN SlugChars(Tail(text), Append(slug, "-"))
    ELSE SlugChars(Tail(text), slug)

slugify(text) ==
    LET slug == SlugChars(text, <<>>)
    IN  IF slug # <<>> /\ slug[Len(slug)] = "-"
        THEN SubSeq(slug, 1, Len(slug) - 1)
        ELSE slug

slugify_safe(path) == sanitize_path(path)

\* The whole path string goes through slug::slugify and becomes the path.
slugify_on(path) ==
    LET slug == slugify(PathString(sanitize_path(path)))
    IN  IF slug = <<>> THEN <<>> ELSE <<slug>>

slugify_path(path, mode) ==
    IF mode = "Safe" THEN slugify_safe(path)
    ELSE IF mode = "On" THEN slugify_on(path)
    ELSE path

\* config.build.output: the default "public" joined to the root "./".
OutputRoot == << <<".">>, <<"public">> >>

IndexHtml == <<"index", ".", "html">>

\* The stem of the designated index source, index.typ.
IndexStem == <<"index">>

BasePaths == {<<>>, << <<"blog">> >>}

\* The characters source names are made of.
NameChars == {"a", "A", " ", "?"}

\* The stems of the source files: index, and every name of one or two
\* characters that holds a letter.
Stems == {IndexStem} \cup
         {stem \in UNION {[1..n -> NameChars] : n \in 1..2} :
             \E i \in 1..Len(stem) : IsAlnum(stem[i])}

\* A source, relative to the content root and without its .typ extension:
\* a stem at the root or inside a directory.
Sources == {<<stem>> : stem \in Stems}
              \cup {<<dir, stem>> : dir \in {<<"a">>}, stem \in Stems}

\* The most sources one build processes.
MaxSources == 2

Prefixes(path) == {SubSeq(path, 1, n) : n \in 0..Len(path)}

Parent(path) == SubSeq(path, 1, Len(path) - 1)

\* The file a path names: a "." component names no directory of its own.
FsPath(path) == SelectSeq(path, LAMBDA comp : comp # <<".">>)

\* process_content: the directory created before the compiler runs.
PostDir(src) == OutputRoot \o base_path \o src

\* process_content: html_path.
HtmlPath(src) ==
    slugify_path(IF src[Len(src)] = IndexStem
                 THEN OutputRoot \o <<IndexHtml>>
                 ELSE PostDir(src) \o <<IndexHtml>>,
                 slug_path)

\* build_site has created the output directory; no page is processed yet.
InitContent ==
    /\ IdleRace
    /\ IdleWatch
    /\ IdleServe
    /\ IdleCompress
    /\ IdleStable
    /\ IdleFiles
    /\ IdleTree
    /\ IdleSvg
    /\ IdleDeploy
    /\ IdleLink
    /\ extract_type = "Embedded"
    /\ slug_path \in SlugMode
    /\ base_path \in BasePaths
    /\ content_done = {}
    /\ dirs = {FsPath(d) : d \in Prefixes(OutputRoot)}
    /\ html_files = {}

\* process_content for one markup source: create_dir_all of the unslugged
\* directory, the compiler call, then fs::write to the slugged html_path.
ProcessContent(src, compiled) ==
    /\ Cardinality(content_done) < MaxSources
    /\ src \notin {r.src : r \in content_done}
    /\ LET made == dirs \cup {FsPath(d) : d \in Prefixes(PostDir(src))}
           html_path == HtmlPath(src)
           target == FsPath(html_path)
           writable == /\ target # <<>>
                       /\ Parent(target) \in made
                       /\ target \notin made
           res == IF ~compiled THEN "compile_err"
                  ELSE IF writable THEN "ok" ELSE "write_err"
       IN  /\ dirs' = made
           /\ content_done' = content_done \cup
                 {[src |-> src, html_path |-> html_path, res |-> res]}
           /\ html_files' =
                 IF res = "ok"
                 THEN {h \in html_files : h.path # target}
                         \cup {[path |-> target, src |-> src]}
                 ELSE html_files
    /\ UNCHANGED <<slug_path, base_path, extract_type>>
    /\ UNCHANGED <<varsFiles, varsSvg, varsDeploy, varsLink, varsTree,
                   varsStable, varsCompress, varsServe, varsWatch, varsRace>>

NextContent ==
    \E src \in Sources, compiled \in BOOLEAN : ProcessContent(src, compiled)

SpecContent == InitContent /\ [][NextContent]_vars

IsPrefix(p, q) == Len(p) <= Len(q) /\ SubSeq(q, 1, Len(p)) = p

\* C5: output paths are unique: two distinct markup sources are resolved to
\* two distinct output HTML paths.
C5_OutputPathsUnique ==
    \A r1, r2 \in content_done :
        r1.src # r2.src => FsPath(r1.html_path) # FsPath(r2.html_path)

\* C6: every source whose compiler call succeeded has its output HTML file
\* written, at its slug-resolved path.
C6_OneHtmlPerSource ==
    \A r \in content_done :
        r.res # "compile_err"
            => /\ r.res = "ok"
               /\ [path |-> FsPath(r.html_path), src |-> r.src] \in html_files

\* C7: under every path-slug policy the resolved output path lies inside the
\* output root and ends in index.html, and only the index source of the
\* content root is resolved to <output_root>/index.html.
C7_LayoutInvariant ==
    \A r \in content_done :
        /\ IsPrefix(OutputRoot, r.html_path)
        /\ r.html_path[Len(r.html_path)] = IndexHtml
        /\ (r.html_path = OutputRoot \o <<IndexHtml>>) <=> (r.src = <<IndexStem>>)

----------------------------------------------------------------------------
(* Command dispatcher (main), deploy_site, commit_all and push.            *)

Hosts == {"X", "Y"}

Tokens == {"", "tok"}

RemoteUrls == [token : Tokens, host : Hosts]

\* push: "https://{token}{split_symbol}{host}", the URL origin is set to.
AuthUrl == [token |-> token, host |-> url_in_config]

\* The local branches: the default one, and one with another name.
Branches == {"main", "pages"}

\* The most runs of the command over one output repository.
MaxDeploys == 2

\* parent_ids_or_empty: the tip of refs/heads/main, or no parent.
parent_ids_or_empty == IF tips["main"] # 0 THEN <<tips["main"]>> ELSE <<>>

\* main has parsed the command line and spawned the build and the rss task.
InitDeploy ==
    /\ IdleRace
    /\ IdleWatch
    /\ IdleServe
    /\ IdleCompress
    /\ IdleStable
    /\ IdleFiles
    /\ IdleTree
    /\ IdleSvg
    /\ IdleContent
    /\ IdleLink
    /\ extract_type = "Embedded"
    /\ command \in {"Build", "Deploy"}
    /\ provider \in {"github", "other"}
    /\ force \in BOOLEAN
    /\ url_in_config \in Hosts
    /\ token \in Tokens
    /\ other_remote \in BOOLEAN
    /\ origin \in {NoRemote} \cup RemoteUrls
    /\ origin_at_call = NoRemote
    /\ build_res = "running"
    /\ posts_res = "none"
    /\ assets_res = "none"
    /\ rss_res = "running"
    /\ commit_res = "none"
    /\ push_res = "none"
    /\ deploy_res = "none"
    /\ main_pc = "join_build"
    /\ exit_code = -1
    /\ branch_in_config \in Branches
    /\ head_branch \in Branches
    /\ tips = [b \in Branches |-> 0]
    /\ commits = <<>>
    /\ deploys = 1

UnchangedConfig ==
    UNCHANGED <<extract_type, command, provider, force, url_in_config, token,
                other_remote, branch_in_config, head_branch>>

\* The refs and objects of the output repository stay as they are.
UnchangedRepo == UNCHANGED <<tips, commits, deploys>>

\* A value of the join in main that takes the build's error for a success.
LeavesScopeNever(cmd, res) == FALSE

\* let repo = build_task.join().unwrap()?;   only Deploy has the `?`.
LeavesScope(cmd, res) == cmd = "Deploy" /\ res = "err"

\* build_site has its repository and enters thread::scope: the content
\* pipeline and the asset pipeline are spawned.
BuildScopeStarts ==
    /\ build_res = "running"
    /\ posts_res = "none"
    /\ assets_res = "none"
    /\ posts_res' = "running"
    /\ assets_res' = "running"
    /\ UnchangedConfig
    /\ UnchangedRepo
    /\ UNCHANGED <<origin, origin_at_call, build_res, rss_res, commit_res,
                   push_res, deploy_res, main_pc, exit_code>>
    /\ UNCHANGED <<varsFiles, varsSvg, varsContent, varsLink, varsTree,
                   varsStable, varsCompress, varsServe, varsWatch, varsRace>>

\* process_files of the content pipeline returns.
PostsPipelineEnds(res) ==
    /\ posts_res = "running"
    /\ posts_res' = res
    /\ UnchangedConfig
    /\ UnchangedRepo
    /\ UNCHANGED <<origin, origin_at_call, build_res, assets_res, rss_res,
                   commit_res, push_res, deploy_res, main_pc, exit_code>>
    /\ UNCHANGED <<varsFiles, varsSvg, varsContent, varsLink, varsTree,
                   varsStable, varsCompress, varsServe, varsWatch, varsRace>>

\* process_files of the asset pipeline returns.
AssetsPipelineEnds(res) ==
    /\ assets_res = "running"
    /\ assets_res' = res
    /\ UnchangedConfig
    /\ UnchangedRepo
    /\ UNCHANGED <<origin, origin_at_call, build_res, posts_res, rss_res,
                   commit_res, push_res, deploy_res, main_pc, exit_code>>
    /\ UNCHANGED <<varsFiles, varsSvg, varsContent, varsLink, varsTree,
                   varsStable, varsCompress, varsServe, varsWatch, varsRace>>

\* The build task ends: build_site returns Ok or an error. It fails before
\* the scope when the repository cannot be made; the scope ends when both
\* pipelines have ended and yields the error of one that failed; after it
\* build_site can still fail on read_dir.
BuildTaskEnds(res) ==
    /\ build_res = "running"
    /\ posts_res # "running"
    /\ assets_res # "running"
    /\ res = "ok" => (posts_res = "ok" /\ assets_res = "ok")
    /\ build_res' = res
    /\ UnchangedConfig
    /\ UnchangedRepo
    /\ UNCHANGED <<origin, origin_at_call, posts_res, assets_res, rss_res,
                   commit_res, push_res, deploy_res, main_pc, exit_code>>
    /\ UNCHANGED <<varsFiles, varsSvg, varsContent, varsLink, varsTree,
                   varsStable, varsCompress, varsServe, varsWatch, varsRace>>

\* The rss task ends.
RssTaskEnds(res) ==
    /\ rss_res = "running"
    /\ rss_res' = res
    /\ UnchangedConfig
    /\ UnchangedRepo
    /\ UNCHANGED <<origin, origin_at_call, build_res, posts_res, assets_res, commit_res, push_res,
                   deploy_res, main_pc, exit_code>>
    /\ UNCHANGED <<varsFiles, varsSvg, varsContent, varsLink, varsTree,
                   varsStable, varsCompress, varsServe, varsWatch, varsRace>>

\* Build: build_task.join().unwrap();   the Result is dropped.
\* Deploy: build_task.join().unwrap()?; an error leaves the scope.
MainJoinBuild ==
    /\ main_pc = "join_build"
    /\ build_res # "running"
    /\ main_pc' = IF LeavesScope(command, build_res)
                  THEN "scope_err" ELSE "join_rss"
    /\ UnchangedConfig
    /\ UnchangedRepo
    /\ UNCHANGED <<origin, origin_at_call, build_res, posts_res, assets_res, rss_res, commit_res,
                   push_res, deploy_res, exit_code>>
    /\ UNCHANGED <<varsFiles, varsSvg, varsContent, varsLink, varsTree,
                   varsStable, varsCompress, varsServe, varsWatch, varsRace>>

\* The scope ends with the build's error once the rss task has ended too;
\* `?` makes main return it.
MainScopeErr ==
    /\ main_pc = "scope_err"
    /\ rss_res # "running"
    /\ main_pc' = "done"
    /\ exit_code' = 1
    /\ UnchangedConfig
    /\ UnchangedRepo
    /\ UNCHANGED <<origin, origin_at_call, build_res, posts_res, assets_res, rss_res, commit_res,
                   push_res, deploy_res>>
    /\ UNCHANGED <<varsFiles, varsSvg, varsContent, varsLink, varsTree,
                   varsStable, varsCompress, varsServe, varsWatch, varsRace>>

\* rss_task.join().unwrap(); the Result is dropped. Build then returns Ok(()).
MainJoinRss ==
    /\ main_pc = "join_rss"
    /\ rss_res # "running"
    /\ IF command = "Build"
       THEN main_pc' = "done" /\ exit_code' = 0
       ELSE main_pc' = "deploy_site" /\ UNCHANGED exit_code
    /\ UnchangedConfig
    /\ UnchangedRepo
    /\ UNCHANGED <<origin, origin_at_call, build_res, posts_res, assets_res, rss_res, commit_res,
                   push_res, deploy_res>>
    /\ UNCHANGED <<varsFiles, varsSvg, varsContent, varsLink, varsTree,
                   varsStable, varsCompress, varsServe, varsWatch, varsRace>>

\* deploy_site: only the provider "github" is supported.
DeploySite ==
    /\ main_pc = "deploy_site"
    /\ IF provider = "github"
       THEN main_pc' = "commit_all" /\ UNCHANGED deploy_res
       ELSE main_pc' = "deployed" /\ deploy_res' = "err"
    /\ UnchangedConfig
    /\ UnchangedRepo
    /\ UNCHANGED <<origin, origin_at_call, build_res, posts_res, assets_res, rss_res, commit_res,
                   push_res, exit_code>>
    /\ UNCHANGED <<varsFiles, varsSvg, varsContent, varsLink, varsTree,
                   varsStable, varsCompress, varsServe, varsWatch, varsRace>>

\* deploy_github: git::commit_all(&repo, "deploy it")?  With ok the commit
\* object is written, its parents from parent_ids_or_empty, and HEAD's branch
\* is moved to it by repo.commit("HEAD", ..), which expects that branch to
\* be at the first parent, or not to exist when there is no parent.
CommitAll(ok) ==
    /\ main_pc = "commit_all"
    /\ IF ok
       THEN LET parents == parent_ids_or_empty
                id == Len(commits) + 1
                ref_ok == tips[head_branch] = (IF parents = <<>> THEN 0 ELSE parents[1])
            IN  /\ commits' = Append(commits,
                                [parents |-> parents,
                                 target_tip |-> tips[branch_in_config]])
                /\ IF ref_ok
                   THEN /\ tips' = [tips EXCEPT ![head_branch] = id]
                        /\ commit_res' = "ok"
                        /\ main_pc' = "push_remote"
                        /\ origin_at_call' = origin
                        /\ UNCHANGED deploy_res
                   ELSE /\ commit_res' = "err"
                        /\ main_pc' = "deployed"
                        /\ deploy_res' = "err"
                        /\ UNCHANGED <<tips, origin_at_call>>
       ELSE /\ commit_res' = "err"
            /\ main_pc' = "deployed"
            /\ deploy_res' = "err"
            /\ UNCHANGED <<origin_at_call, tips, commits>>
    /\ UnchangedConfig
    /\ UNCHANGED <<origin, build_res, posts_res, assets_res, rss_res, push_res, exit_code, deploys>>
    /\ UNCHANGED <<varsFiles, varsSvg, varsContent, varsLink, varsTree,
                   varsStable, varsCompress, varsServe, varsWatch, varsRace>>

\* push, up to `git remote set-url|add origin <remote_url>`: Remotes::new
\* asserts that every remote is named origin; the command may fail.
PushSetRemote(ok) ==
    /\ main_pc = "push_remote"
    /\ IF other_remote
       THEN /\ push_res' = "panic"
            /\ main_pc' = "done"
            /\ exit_code' = 101
            /\ UNCHANGED <<origin, deploy_res>>
       ELSE IF ok
       THEN /\ origin' = AuthUrl
            /\ main_pc' = "push_push"
            /\ UNCHANGED <<push_res, deploy_res, exit_code>>
       ELSE /\ push_res' = "cmd_err"
            /\ deploy_res' = "err"
            /\ main_pc' = "deployed"
            /\ UNCHANGED <<origin, exit_code>>
    /\ UnchangedConfig
    /\ UnchangedRepo
    /\ UNCHANGED <<origin_at_call, build_res, posts_res, assets_res, rss_res, commit_res>>
    /\ UNCHANGED <<varsFiles, varsSvg, varsContent, varsLink, varsTree,
                   varsStable, varsCompress, varsServe, varsWatch, varsRace>>

\* push: `git push --set-upstream origin <branch> [-f]`; git has nothing to
\* push when there is no local branch of that name.
PushPush(ok) ==
    /\ main_pc = "push_push"
    /\ IF ok /\ tips[branch_in_config] # 0
       THEN /\ main_pc' = "push_check"
            /\ UNCHANGED <<push_res, deploy_res>>
       ELSE /\ push_res' = "cmd_err"
            /\ deploy_res' = "err"
            /\ main_pc' = "deployed"
    /\ UnchangedConfig
    /\ UnchangedRepo
    /\ UNCHANGED <<origin, origin_at_call, build_res, posts_res, assets_res, rss_res, commit_res,
                   exit_code>>
    /\ UNCHANGED <<varsFiles, varsSvg, varsContent, varsLink, varsTree,
                   varsStable, varsCompress, varsServe, varsWatch, varsRace>>

\* push: the remotes are read again; the drift error when origin's URL is not
\* the URL just used and force is off.
PushCheck(ok) ==
    /\ main_pc = "push_check"
    /\ LET remote_url_equals_config == origin = AuthUrl
       IN  IF ~ok
           THEN push_res' = "cmd_err" /\ deploy_res' = "err"
           ELSE IF ~remote_url_equals_config /\ ~force
           THEN push_res' = "drift" /\ deploy_res' = "err"
           ELSE push_res' = "ok" /\ deploy_res' = "ok"
    /\ main_pc' = "deployed"
    /\ UnchangedConfig
    /\ UnchangedRepo
    /\ UNCHANGED <<origin, origin_at_call, build_res, posts_res, assets_res, rss_res, commit_res,
                   exit_code>>
    /\ UNCHANGED <<varsFiles, varsSvg, varsContent, varsLink, varsTree,
                   varsStable, varsCompress, varsServe, varsWatch, varsRace>>

\* main: deploy_site(repo, config); Ok(())   the Result is dropped.
MainDeployed ==
    /\ main_pc = "deployed"
    /\ main_pc' = "done"
    /\ exit_code' = 0
    /\ UnchangedConfig
    /\ UnchangedRepo
    /\ UNCHANGED <<origin, origin_at_call, build_res, posts_res, assets_res, rss_res, commit_res,
                   push_res, deploy_res>>
    /\ UNCHANGED <<varsFiles, varsSvg, varsContent, varsLink, varsTree,
                   varsStable, varsCompress, varsServe, varsWatch, varsRace>>

\* The command is run again over the same output repository.
RunAgain ==
    /\ main_pc = "done"
    /\ deploys < MaxDeploys
    /\ deploys' = deploys + 1
    /\ build_res' = "running"
    /\ posts_res' = "none"
    /\ assets_res' = "none"
    /\ rss_res' = "running"
    /\ commit_res' = "none"
    /\ push_res' = "none"
    /\ deploy_res' = "none"
    /\ origin_at_call' = NoRemote
    /\ main_pc' = "join_build"
    /\ exit_code' = -1
    /\ UnchangedConfig
    /\ UNCHANGED <<origin, tips, commits>>
    /\ UNCHANGED <<varsFiles, varsSvg, varsContent, varsLink, varsTree,
                   varsStable, varsCompress, varsServe, varsWatch, varsRace>>

NextDeploy ==
    \/ RunAgain
    \/ BuildScopeStarts
    \/ \E res \in {"ok", "err"} : PostsPipelineEnds(res)
    \/ \E res \in {"ok", "err"} : AssetsPipelineEnds(res)
    \/ \E res \in {"ok", "err"} : BuildTaskEnds(res)
    \/ \E res \in {"ok", "err"} : RssTaskEnds(res)
    \/ MainJoinBuild
    \/ MainScopeErr
    \/ MainJoinRss
    \/ DeploySite
    \/ \E ok \in BOOLEAN : CommitAll(ok)
    \/ \E ok \in BOOLEAN : PushSetRemote(ok)
    \/ \E ok \in BOOLEAN : PushPush(ok)
    \/ \E ok \in BOOLEAN : PushCheck(ok)
    \/ MainDeployed

SpecDeploy == InitDeploy /\ [][NextDeploy]_vars

\* C3: drift protection: when push was called while origin pointed to another
\* URL than the configured one and force is off, and no git command failed,
\* push has failed with the drift error and origin still points where it
\* pointed.
C3_DriftProtection ==
    (/\ push_res \in {"ok", "drift"}
     /\ origin_at_call.host \in Hosts \ {url_in_config}
     /\ ~force)
        => push_res = "drift" /\ origin = origin_at_call

\* C4: a failure reported by build_site, or by commit_all or push in a
\* deploy, makes the command end with a non-zero exit code.
C4_FailureIsFatal ==
    (main_pc = "done" /\ (build_res = "err" \/ deploy_res = "err"))
        => exit_code # 0

\* deploy_github has reached commit_all or gone beyond it in this run.
CommitStarted ==
    main_pc = "commit_all" \/ commit_res # "none" \/ push_res # "none"

\* push has been called in this run.
PushStarted ==
    main_pc \in {"push_remote", "push_push", "push_check"} \/ push_res # "none"

C25_Order ==
    /\ CommitStarted
          => /\ command = "Deploy"
             /\ build_res = "ok"
             /\ posts_res = "ok"
             /\ assets_res = "ok"
    /\ build_res = "err" => (commit_res = "none" /\ push_res = "none")
    /\ PushStarted
          => /\ commit_res = "ok"
             /\ commits # <<>>
             /\ tips[head_branch] = Len(commits)

\* C25: in the Deploy command the commit and the push start only after
\* build_site has returned Ok, with the content and the asset pipeline both
\* ended; while the build has not succeeded no commit object is written;
\* and push is called only after the commit was written.
C25_DeployOrdering ==
    /\ []C25_Order
    /\ [][build_res # "ok" => commits' = commits]_vars

\* A deploy that went through: build, commit, push.
C25_Witness ==
    /\ command = "Deploy"
    /\ build_res = "ok"
    /\ commit_res = "ok"
    /\ push_res = "ok"

----------------------------------------------------------------------------
(* Link rewriting: process_link_in_html on the value of one href or src,   *)
(* and the heading ids of process_html. A value is a sequence of           *)
(* characters, as the texts above.                                         *)

\* A character of more than one byte in UTF-8.
IsMultiByte(c) == c = "U+00E9"

\* The result of a rewrite that panicked.
Panic == <<"panic!">>

\* The position of the first c in text, 0 when there is none.
RECURSIVE Find(_, _, _)
Find(text, c, i) ==
    IF i > Len(text) THEN 0
    ELSE IF text[i] = c THEN i
    ELSE Find(text, c, i + 1)

\* The segments of text between its '/' characters.
RECURSIVE SplitSlash(_)
SplitSlash(text) ==
    LET i == Find(text, "/", 1)
    IN  IF i = 0 THEN <<text>>
        ELSE <<SubSeq(text, 1, i - 1)>> \o SplitSlash(SubSeq(text, i + 1, Len(text)))

\* Path::components: the root, a leading ".", and the segments that are
\* neither empty nor ".".
Components(text) ==
    LET segs == SplitSlash(text)
        normal == SelectSeq(segs, LAMBDA seg : seg # <<>> /\ seg # <<".">>)
    IN  IF text # <<>> /\ text[1] = "/" THEN << <<"/">> >> \o normal
        ELSE IF segs[1] = <<".">> THEN << <<".">> >> \o normal
        ELSE normal

\* PathBuf::join / push: an absolute path replaces the base; otherwise it is
\* appended, after a separator when the base does not end with one.
PathJoin(base, path) ==
    IF path # <<>> /\ path[1] = "/" THEN path
    ELSE IF base = <<>> \/ base[Len(base)] = "/" THEN base \o path
    ELSE base \o <<"/">> \o path

\* PathBuf::from_iter: the components pushed one after the other.
RECURSIVE FromIter(_, _)
FromIter(buf, comps) ==
    IF comps = <<>> THEN buf
    ELSE FromIter(PathJoin(buf, Head(comps)), Tail(comps))

\* slugify_path on the path part of a link, as a string.
slugify_path_str(text, mode) ==
    LET comps == Components(text)
        sanitized == FromIter(<<>>, [i \in 1..Len(comps) |-> sanitize_text(comps[i])])
    IN  IF mode = "Safe" THEN sanitized
        ELSE IF mode = "On" THEN slugify(sanitized)
        ELSE text

\* slugify_fragment with the policy the other way round for "safe".
slugify_fragment_raw(text, mode) ==
    IF mode = "Safe" THEN text
    ELSE IF mode = "On" THEN slugify(text)
    ELSE text

slugify_fragment(text, mode) ==
    IF mode = "Safe" THEN sanitize_text(text)
    ELSE IF mode = "On" THEN slugify(text)
    ELSE text

\* is_asset_link: the first segment after the root is a top-level asset name.
is_asset_link(value, tops) ==
    LET comps == Components(value)
    IN  /\ Len(comps) >= 2
        /\ comps[2] \in tops

IsSchemeChar(c) ==
    \/ c \in {"+", "-", "."}
    \/ IsAlnum(c) /\ ~IsMultiByte(c)

\* is_external_link: a ':' with only scheme characters before it.
is_external_link(value) ==
    LET colon_pos == Find(value, ":", 1)
    IN  /\ colon_pos > 0
        /\ \A i \in 1..(colon_pos - 1) : IsSchemeChar(value[i])

\* PathBuf::from("/").join(config.build.base_path)
BasePathString == PathJoin(<<"/">>, PathString(base_path))

\* The "/" arm of process_link_in_html.
AbsoluteLink(value, tops) ==
    IF is_asset_link(value, tops) THEN PathJoin(BasePathString, value)
    ELSE LET i == Find(value, "#", 1)
             path == IF i = 0 THEN value ELSE SubSeq(value, 1, i - 1)
             fragment == IF i = 0 THEN <<>> ELSE SubSeq(value, i + 1, Len(value))
         IN  PathJoin(BasePathString,
                      slugify_path_str(path, slug_path)
                        \o (IF fragment # <<>>
                            THEN <<"#">> \o slugify_fragment(fragment, slug_fragment)
                            ELSE <<>>))

\* The last arm of process_link_in_html: external links stay, any other
\* value is joined to "../".
RelativeLink(value) ==
    IF is_external_link(value) THEN value
    ELSE PathJoin(<<".", ".", "/">>, value)

\* process_link_in_html on the value of an href or src: &value[0..=0] panics
\* on an empty value and on a first character of more than one byte.
process_link_in_html(value, tops) ==
    IF value = <<>> \/ IsMultiByte(value[1]) THEN Panic
    ELSE IF value[1] = "/" THEN AbsoluteLink(value, tops)
    ELSE IF value[1] = "#"
    THEN <<"#">> \o slugify_fragment(Tail(value), slug_fragment)
    ELSE RelativeLink(value)

\* fs::read_dir(assets_dir) ... unwrap_or_default()
ReadAssetTopLevels == IF assets_readable THEN assets_dir ELSE {}

\* get_asset_top_levels reading the directory on every call.
get_asset_top_levels_uncached(cache) == [set |-> TRUE, val |-> ReadAssetTopLevels]

\* get_asset_top_levels: ASSET_TOP_LEVELS.get_or_init(..); the cache after
\* the call, whose val is what the call returns.
get_asset_top_levels(cache) ==
    IF cache.set THEN cache ELSE [set |-> TRUE, val |-> ReadAssetTopLevels]

\* The names that may be in the assets directory.
AssetNames == {<<"images">>}

\* The characters the heading texts are made of.
FragChars == {"a", " ", "#", "!"}

\* The longest heading text made of them.
MaxFragLen == 2

\* The heading texts: every short text, and one with capitals, an inner
\* space and punctuation.
FragTexts == UNION {[1..n -> FragChars] : n \in 0..MaxFragLen}
                \cup {<<"A", " ", "B", "!">>}

PostsB == <<"/", "posts", "/", "b">>

PicPng == <<".", "/", "pic", ".", "png">>

\* The href and src values rewritten one by one.
LinkValues ==
    { PicPng,
      <<"pic", ".", "png">>,
      <<"a", "/", "pic", ".", "png">>,
      <<"/", "images", "/", "x", ".", "png">>,
      <<"/", "images", "/", "a", " ", "b", "#", "a">>,
      PostsB \o <<"#", "intro">>,
      PostsB,
      <<"/", "posts", "/", "a", " ", "?">>,
      <<"https", ":", "/", "/", "e", ".", "com">>,
      <<"mailto", ":", "a">>,
      <<"U+00E9", ".", "png">>,
      <<>> }

\* process_html starts on a page; nothing has read the asset names yet.
InitLink ==
    /\ IdleRace
    /\ IdleWatch
    /\ IdleServe
    /\ IdleCompress
    /\ IdleStable
    /\ IdleFiles
    /\ IdleTree
    /\ IdleSvg
    /\ IdleDeploy
    /\ extract_type = "Embedded"
    /\ slug_path \in SlugMode
    /\ base_path \in BasePaths
    /\ content_done = {}
    /\ dirs = {}
    /\ html_files = {}
    /\ slug_fragment \in SlugMode
    /\ assets_dir \in SUBSET AssetNames
    /\ assets_readable \in BOOLEAN
    /\ asset_cache = Unset
    /\ page = NoPage
    /\ link = NoLink
    /\ tag = NoTag
    /\ wpc = <<>>
    /\ got = <<>>
    /\ init_runs = 0
    /\ first_val = {}

\* The bookkeeping of a call of get_asset_top_levels.
CacheAccessed ==
    /\ asset_cache' = get_asset_top_levels(asset_cache)
    /\ init_runs' = IF asset_cache.set THEN init_runs ELSE init_runs + 1
    /\ first_val' = IF asset_cache.set THEN first_val ELSE asset_cache'.val

\* process_html on a page with a heading whose id is `text`, a link to
\* #text and a link to /posts/b#text.
RewritePage(text) ==
    /\ CacheAccessed
    /\ page' = [text |-> text,
                id   |-> slugify_fragment(text, slug_fragment),
                hash |-> process_link_in_html(<<"#">> \o text, asset_cache'.val),
                path |-> process_link_in_html(PostsB \o <<"#">> \o text,
                                               asset_cache'.val)]
    /\ link' = NoLink
    /\ tag' = NoTag
    /\ UNCHANGED <<slug_fragment, assets_dir, assets_readable, wpc, got>>
    /\ UNCHANGED <<extract_type, varsFiles, varsSvg, varsContent, varsDeploy, varsTree,
                   varsStable, varsCompress, varsServe, varsWatch, varsRace>>

\* process_link_in_html on an element with one href or src.
RewriteLink(value) ==
    /\ IF value # <<>> /\ value[1] = "/"
       THEN CacheAccessed
       ELSE UNCHANGED <<asset_cache, init_runs, first_val>>
    /\ link' = [value |-> value,
                out   |-> process_link_in_html(value, asset_cache'.val)]
    /\ page' = NoPage
    /\ tag' = NoTag
    /\ UNCHANGED <<slug_fragment, assets_dir, assets_readable, wpc, got>>
    /\ UNCHANGED <<extract_type, varsFiles, varsSvg, varsContent, varsDeploy, varsTree,
                   varsStable, varsCompress, varsServe, varsWatch, varsRace>>

\* The assets directory changes on disk, or stops or starts being readable.
AssetsDirChanges(names, readable) ==
    /\ <<names, readable>> # <<assets_dir, assets_readable>>
    /\ assets_dir' = names
    /\ assets_readable' = readable
    /\ UNCHANGED <<slug_fragment, asset_cache, page, link, tag, wpc, got, init_runs,
                   first_val>>
    /\ UNCHANGED <<extract_type, varsFiles, varsSvg, varsContent, varsDeploy, varsTree,
                   varsStable, varsCompress, varsServe, varsWatch, varsRace>>

\* The most attributes of a start tag.
MaxAttrs == 2

\* The attributes of the start tags rewritten.
TagAttrs ==
    { [key |-> "href",  value |-> PostsB],
      [key |-> "href",  value |-> <<>>],
      [key |-> "src",   value |-> PicPng],
      [key |-> "class", value |-> <<"c">>] }

\* The attribute lists of a start tag: no key twice.
TagAttrLists ==
    {l \in UNION {[1..n -> TagAttrs] : n \in 1..MaxAttrs} :
        \A i, j \in DOMAIN l : i # j => l[i].key # l[j].key}

\* The orders in which n items can come out of par_bridge(), which hands the
\* items of the iterator to whichever threads of the pool ask first.
par_bridge(n) ==
    {f \in [1..n -> 1..n] : \A i, j \in 1..n : i # j => f[i] # f[j]}

\* The closure mapped over the attributes: the value of an href or src is
\* rewritten, every other attribute is passed on.
rewrite_attribute(attr, tops) ==
    IF attr.key \in {"href", "src"}
    THEN [key |-> attr.key, value |-> process_link_in_html(attr.value, tops)]
    ELSE attr

\* elem.to_owned().with_attributes(attrs): the attributes are added to those
\* the element already has.
with_attributes(elem, attrs) == elem \o attrs

\* process_link_in_html on a start tag with the attributes attrs, collected
\* in the order `order`; a panic in the closure unwinds and nothing is
\* written.
RewriteTag(attrs, order) ==
    /\ IF \E i \in DOMAIN attrs :
             /\ attrs[i].key \in {"href", "src"}
             /\ attrs[i].value # <<>>
             /\ attrs[i].value[1] = "/"
       THEN CacheAccessed
       ELSE UNCHANGED <<asset_cache, init_runs, first_val>>
    /\ LET mapped == [i \in DOMAIN attrs |->
                         rewrite_attribute(attrs[i], asset_cache'.val)]
           collected == [i \in DOMAIN attrs |-> mapped[order[i]]]
           panicked == \E i \in DOMAIN attrs : mapped[i].value = Panic
       IN  tag' = [attrs    |-> attrs,
                   panicked |-> panicked,
                   out      |-> IF panicked THEN <<>>
                                ELSE with_attributes(attrs, collected)]
    /\ page' = NoPage
    /\ link' = NoLink
    /\ UNCHANGED <<slug_fragment, assets_dir, assets_readable, wpc, got>>
    /\ UNCHANGED <<extract_type, varsFiles, varsSvg, varsContent, varsDeploy, varsTree,
                   varsStable, varsCompress, varsServe, varsWatch, varsRace>>

NextLink ==
    \/ \E text \in FragTexts : RewritePage(text)
    \/ \E value \in LinkValues : RewriteLink(value)
    \/ \E attrs \in TagAttrLists : \E order \in par_bridge(Len(attrs)) :
          RewriteTag(attrs, order)
    \/ \E names \in SUBSET AssetNames, readable \in BOOLEAN :
          AssetsDirChanges(names, readable)

SpecLink == InitLink /\ [][NextLink]_vars

\* C28: for a start tag other than html, h1..h6 and svg, the rewriter emits
\* the attributes of the input in the order of the input, with only the
\* values of href and src changed, the same on every run.
C28_AttributesPreserved ==
    (tag # NoTag /\ ~tag.panicked)
        => tag.out = [i \in DOMAIN tag.attrs |->
                         rewrite_attribute(tag.attrs[i], asset_cache.val)]

\* C29: link rewriting is total: every href or src value, the empty one
\* included, is rewritten and its tag emitted without a panic.
C29_LinkRewriteTotal ==
    /\ link.out # Panic
    /\ ~tag.panicked


\* The base path put in front of a rewritten absolute value.
PrefixWithBase(text) ==
    IF base_path = <<>> THEN text
    ELSE <<"/">> \o PathString(base_path)
           \o (IF text # <<>> /\ text[1] = "/" THEN text ELSE <<"/">> \o text)

IsAbsolute(value) == value # <<>> /\ value[1] = "/"

\* The text after the first '#' of a value, empty when there is none.
FragmentOf(value) ==
    LET i == Find(value, "#", 1)
    IN  IF i = 0 THEN <<>> ELSE SubSeq(value, i + 1, Len(value))

PathPartOf(value) ==
    LET i == Find(value, "#", 1)
    IN  IF i = 0 THEN value ELSE SubSeq(value, 1, i - 1)

\* C12: an absolute content link (first segment not a top-level asset name)
\* is split on '#', its path slugified by the path policy, its fragment by
\* the fragment policy, recombined and prefixed with the base path; with base
\* path blog and safe slugging /posts/b#intro becomes /blog/posts/b#intro.
C12_AbsoluteContentLink ==
    (IsAbsolute(link.value) /\ ~is_asset_link(link.value, asset_cache.val))
        => /\ link.out =
                PrefixWithBase(
                    slugify_path_str(PathPartOf(link.value), slug_path)
                      \o (IF FragmentOf(link.value) # <<>>
                          THEN <<"#">> \o slugify_fragment(FragmentOf(link.value),
                                                           slug_fragment)
                          ELSE <<>>))
           /\ (/\ link.value = PostsB \o <<"#", "intro">>
               /\ base_path = << <<"blog">> >>
               /\ slug_path = "Safe" /\ slug_fragment = "Safe")
                 => link.out = <<"/", "blog", "/", "posts", "/", "b", "#", "intro">>

\* C13: an absolute link whose first segment is a top-level asset name is
\* rewritten to the base path followed by the original value, which is left
\* as it is; with an empty base path the value is unchanged.
C13_AssetLink ==
    (IsAbsolute(link.value) /\ is_asset_link(link.value, asset_cache.val))
        => link.out = PrefixWithBase(link.value)

\* C14: a value that starts with neither '/' nor '#' and has no scheme is
\* shifted up one directory level: it is rewritten to "../" followed by the
\* value without a leading "./"; ./pic.png becomes exactly ../pic.png.
C14_RelativeLink ==
    (/\ link.value # <<>>
     /\ ~IsAbsolute(link.value)
     /\ link.value[1] # "#"
     /\ ~is_external_link(link.value))
        => /\ link.out =
                <<".", ".", "/">> \o
                  (IF Len(link.value) >= 2 /\ SubSeq(link.value, 1, 2) = <<".", "/">>
                   THEN SubSeq(link.value, 3, Len(link.value))
                   ELSE link.value)
           /\ link.value = PicPng => link.out = <<".", ".", "/", "pic", ".", "png">>

----------------------------------------------------------------------------
(* The top-level asset-name cache under concurrent page workers.           *)

\* The page workers that call get_asset_top_levels.
NumWorkers == 2

Workers == 1..NumWorkers

\* The most reads one worker makes.
MaxReads == 2

\* The page workers are about to rewrite their first links.
InitCache ==
    /\ IdleRace
    /\ IdleWatch
    /\ IdleServe
    /\ IdleCompress
    /\ IdleStable
    /\ IdleFiles
    /\ IdleTree
    /\ IdleSvg
    /\ IdleContent
    /\ IdleDeploy
    /\ extract_type = "Embedded"
    /\ slug_fragment = "Safe"
    /\ assets_dir \in SUBSET AssetNames
    /\ assets_readable \in BOOLEAN
    /\ asset_cache = Unset
    /\ page = NoPage
    /\ link = NoLink
    /\ tag = NoTag
    /\ wpc = [w \in Workers |-> "idle"]
    /\ got = [w \in Workers |-> <<>>]
    /\ init_runs = 0
    /\ first_val = {}

\* What a read returns, with what the directory held at that moment.
ReadEntry(cache) == [val |-> cache.val, disk |-> ReadAssetTopLevels]

\* A worker calls get_or_init: an initialized cell is read at once; otherwise
\* the worker runs the closure, or waits for the worker that is running it.
CallGetOrInit(w) ==
    /\ wpc[w] = "idle"
    /\ Len(got[w]) < MaxReads
    /\ IF asset_cache.set
       THEN /\ asset_cache' = get_asset_top_levels(asset_cache)
            /\ got' = [got EXCEPT ![w] = Append(@, ReadEntry(asset_cache'))]
            /\ UNCHANGED wpc
       ELSE /\ wpc' = [wpc EXCEPT ![w] =
                          IF \E v \in Workers : wpc[v] = "init"
                          THEN "blocked" ELSE "init"]
            /\ UNCHANGED <<asset_cache, got>>
    /\ UNCHANGED <<slug_fragment, assets_dir, assets_readable, page, link, tag,
                   init_runs, first_val>>
    /\ UNCHANGED <<extract_type, varsFiles, varsSvg, varsContent, varsDeploy, varsTree,
                   varsStable, varsCompress, varsServe, varsWatch, varsRace>>

\* The closure: read the directory, store the names, return them.
RunInitClosure(w) ==
    /\ wpc[w] = "init"
    /\ asset_cache' = get_asset_top_levels(asset_cache)
    /\ init_runs' = init_runs + 1
    /\ first_val' = IF init_runs = 0 THEN asset_cache'.val ELSE first_val
    /\ got' = [got EXCEPT ![w] = Append(@, ReadEntry(asset_cache'))]
    /\ wpc' = [wpc EXCEPT ![w] = "idle"]
    /\ UNCHANGED <<slug_fragment, assets_dir, assets_readable, page, link, tag>>
    /\ UNCHANGED <<extract_type, varsFiles, varsSvg, varsContent, varsDeploy, varsTree,
                   varsStable, varsCompress, varsServe, varsWatch, varsRace>>

\* A waiting worker goes on once the cell is initialized.
WaitEnds(w) ==
    /\ wpc[w] = "blocked"
    /\ asset_cache.set
    /\ asset_cache' = get_asset_top_levels(asset_cache)
    /\ got' = [got EXCEPT ![w] = Append(@, ReadEntry(asset_cache'))]
    /\ wpc' = [wpc EXCEPT ![w] = "idle"]
    /\ UNCHANGED <<slug_fragment, assets_dir, assets_readable, page, link, tag,
                   init_runs, first_val>>
    /\ UNCHANGED <<extract_type, varsFiles, varsSvg, varsContent, varsDeploy, varsTree,
                   varsStable, varsCompress, varsServe, varsWatch, varsRace>>

NextCache ==
    \/ \E w \in Workers : CallGetOrInit(w)
    \/ \E w \in Workers : RunInitClosure(w)
    \/ \E w \in Workers : WaitEnds(w)
    \/ \E names \in SUBSET AssetNames, readable \in BOOLEAN :
          AssetsDirChanges(names, readable)

SpecCache == InitCache /\ [][NextCache]_vars

\* C20: the asset-name set is computed at most once, and every read, by any
\* worker at any time, returns the value of that first computation, also
\* after the directory changed and when the first read of it failed.
C20_ComputedOnce ==
    /\ init_runs <= 1
    /\ asset_cache.set => init_runs = 1 /\ asset_cache.val = first_val
    /\ \A w \in Workers : \A i \in 1..Len(got[w]) : got[w][i].val = first_val

\* Both workers have read, one of them after waiting for the other's
\* initialization or after it, and a read returned the first value while the
\* directory held something else.
C20_Witness ==
    /\ init_runs = 1
    /\ \A w \in Workers : got[w] # <<>>
    /\ \E w \in Workers : \E i \in 1..Len(got[w]) :
          got[w][i].val # got[w][i].disk

----------------------------------------------------------------------------
(* Snapshot builder: commit_all's tree, build_tree_from_dir. A name is a   *)
(* sequence of characters, a path a sequence of names. A tree object is    *)
(* the sequence of its entries; an object id stands for the object it      *)
(* names, so two ids are equal exactly when the objects are.               *)

DotGit == <<".", "g", "i", "t">>

DotGitignore == <<".", "g", "i", "t", "i", "g", "n", "o", "r", "e">>

NameA == <<"a">>

NameAB == <<"a", "-", "b">>

NameA0 == <<"a", "0">>

NameX == <<"x">>

\* Files git keeps inside its directory.
HeadFile == <<"H", "E", "A", "D">>

IndexFile == <<"i", "n", "d", "e", "x">>

\* The names whose place in a directory listing varies.
PlainNames == <<NameA, NameAB, NameA0, NameX>>

\* The orders fs::read_dir may list the names of a directory in: the plain
\* names in any order, the dot names before or after them.
EnumOrders ==
    {IF dots_first
     THEN <<DotGit, DotGitignore>> \o [i \in 1..Len(PlainNames) |-> PlainNames[p[i]]]
     ELSE [i \in 1..Len(PlainNames) |-> PlainNames[p[i]]] \o <<DotGitignore, DotGit>>
       : p \in Permutations(1..Len(PlainNames)), dots_first \in BOOLEAN}

\* The patterns tried in the root .gitignore: literal names and a literal
\* path, for which a wildcard match is equality.
IgnorePatterns == {<<"x">>, <<"a">>, <<"a", "/", "x">>}

\* The most snapshots built over one directory.
MaxSnapshots == 2

\* The byte of a character of a name.
Byte(c) ==
    CASE c = "-" -> 45 [] c = "." -> 46 [] c = "/" -> 47 [] c = "0" -> 48
      [] c = "a" -> 97 [] c = "b" -> 98 [] c = "e" -> 101 [] c = "g" -> 103
      [] c = "i" -> 105 [] c = "n" -> 110 [] c = "o" -> 111 [] c = "r" -> 114
      [] c = "t" -> 116 [] c = "x" -> 120

\* a_key.cmp(&b_key) = Less: byte-wise, a proper prefix first.
RECURSIVE BytesLess(_, _)
BytesLess(a, b) ==
    IF b = <<>> THEN FALSE
    ELSE IF a = <<>> THEN TRUE
    ELSE IF Byte(Head(a)) # Byte(Head(b)) THEN Byte(Head(a)) < Byte(Head(b))
    ELSE BytesLess(Tail(a), Tail(b))

\* The sort key with no suffix for directories.
EntryKeyPlain(entry) == entry.filename

\* The sort key of an entry: the name, with '/' pushed for a tree.
EntryKey(entry) ==
    IF entry.mode = "tree" THEN Append(entry.filename, "/") ELSE entry.filename

RECURSIVE InsertEntry(_, _)
InsertEntry(sorted, entry) ==
    IF sorted = <<>> THEN <<entry>>
    ELSE IF BytesLess(EntryKey(entry), EntryKey(Head(sorted)))
    THEN <<entry>> \o sorted
    ELSE <<Head(sorted)>> \o InsertEntry(Tail(sorted), entry)

\* The entries left in the order they were pushed.
RECURSIVE KeepPushOrder(_)
KeepPushOrder(entries) ==
    IF entries = <<>> THEN <<>>
    ELSE <<Head(entries)>> \o KeepPushOrder(Tail(entries))

\* tree.entries.sort_by(..)
RECURSIVE SortEntries(_)
SortEntries(entries) ==
    IF entries = <<>> THEN <<>>
    ELSE InsertEntry(SortEntries(SubSeq(entries, 1, Len(entries) - 1)),
                     entries[Len(entries)])

\* path.strip_prefix(repo_root).to_string_lossy()
RECURSIVE RelPathText(_)
RelPathText(path) ==
    IF Len(path) = 1 THEN path[1]
    ELSE path[1] \o <<"/">> \o RelPathText(Tail(path))

\* ignored_paths.all(|..| !wildmatch(path, pattern, ..)) is false.
MatchesIgnore(path) == \E pattern \in git_ignore : RelPathText(path) = pattern

BlobId(path) == [blob |-> path, tree |-> <<>>]

TreeId(tree) == [blob |-> <<>>, tree |-> tree]

\* build_tree_from_dir(dir), read_dir listing the names in `order`.
RECURSIVE build_tree_from_dir(_, _)
build_tree_from_dir(dir, order) ==
    LET listed == SelectSeq(order,
                     LAMBDA n : Append(dir, n) \in fs_files \cup fs_dirs)
        EntryOf(n) ==
            LET path == Append(dir, n)
            IN  IF path \in fs_dirs /\ n # DotGit
                THEN LET sub_tree == build_tree_from_dir(path, order)
                     IN  IF MatchesIgnore(path) THEN <<>>
                         ELSE <<[mode |-> "tree", oid |-> TreeId(sub_tree),
                                 filename |-> n]>>
                ELSE IF path \in fs_files /\ ~MatchesIgnore(path)
                THEN <<[mode |-> "blob", oid |-> BlobId(path), filename |-> n]>>
                ELSE <<>>
        Pushed[i \in 0..Len(listed)] ==
            IF i = 0 THEN <<>> ELSE Pushed[i - 1] \o EntryOf(listed[i])
    IN  SortEntries(Pushed[Len(listed)])

\* The entries build_tree_from_dir pushes to the index, in the order of the
\* walk: index.dangerously_push_entry(.., blob_id, .., filename) for every
\* file met, before the ignore patterns are looked at, in every directory
\* the walk enters; the path of the entry is the file's name.
RECURSIVE pushed_index_entries(_, _)
pushed_index_entries(dir, order) ==
    LET listed == SelectSeq(order,
                     LAMBDA n : Append(dir, n) \in fs_files \cup fs_dirs)
        PushedFor(n) ==
            LET path == Append(dir, n)
            IN  IF path \in fs_dirs /\ n # DotGit
                THEN pushed_index_entries(path, order)
                ELSE IF path \in fs_files
                THEN <<[path |-> n, id |-> BlobId(path)]>>
                ELSE <<>>
        Pushed[i \in 0..Len(listed)] ==
            IF i = 0 THEN <<>> ELSE Pushed[i - 1] \o PushedFor(listed[i])
    IN  Pushed[Len(listed)]

RECURSIVE InsertIndexEntry(_, _)
InsertIndexEntry(sorted, entry) ==
    IF sorted = <<>> THEN <<entry>>
    ELSE IF BytesLess(entry.path, Head(sorted).path)
    THEN <<entry>> \o sorted
    ELSE <<Head(sorted)>> \o InsertIndexEntry(Tail(sorted), entry)

\* index.sort_entries(): by path, entries of one path in the order pushed.
RECURSIVE sort_entries(_)
sort_entries(entries) ==
    IF entries = <<>> THEN <<>>
    ELSE InsertIndexEntry(sort_entries(SubSeq(entries, 1, Len(entries) - 1)),
                          entries[Len(entries)])

\* An output directory with its repository: some files at the root, perhaps
\* a directory a with files and a .git of its own, and a root .gitignore.
InitTree ==
    /\ IdleRace
    /\ IdleWatch
    /\ IdleServe
    /\ IdleCompress
    /\ IdleStable
    /\ IdleFiles
    /\ IdleSvg
    /\ IdleContent
    /\ IdleDeploy
    /\ IdleLink
    /\ extract_type = "Embedded"
    /\ git_ignore \in {{}} \cup {{pattern} : pattern \in IgnorePatterns}
    /\ \E root_files \in {{}, {NameX}, {NameAB, NameA0}, {NameAB, NameA0, NameX}},
          has_a \in BOOLEAN,
          inner \in SUBSET {NameX, DotGitignore, DotGit} :
          /\ ~has_a => inner = {}
          /\ fs_dirs = {<<DotGit>>}
                \cup (IF has_a THEN {<<NameA>>} ELSE {})
                \cup (IF DotGit \in inner THEN {<<NameA, DotGit>>} ELSE {})
          /\ fs_files = {<<DotGit, HeadFile>>}
                \cup {<<n>> : n \in root_files}
                \cup (IF git_ignore # {} THEN {<<DotGitignore>>} ELSE {})
                \cup {<<NameA, n>> : n \in inner \ {DotGit}}
                \cup (IF DotGit \in inner THEN {<<NameA, DotGit, HeadFile>>} ELSE {})
    /\ trees = <<>>
    /\ index = <<>>
    /\ first_order = <<>>
    /\ reordered = FALSE

\* commit_all: the tree of the root is built and written, with its blobs
\* and subtrees, and the index file is written; all of it inside .git.
CommitAllTree(order) ==
    /\ Len(trees) < MaxSnapshots
    /\ trees' = Append(trees, build_tree_from_dir(<<>>, order))
    /\ index' = sort_entries(pushed_index_entries(<<>>, order))
    /\ fs_files' = fs_files \cup {<<DotGit, IndexFile>>}
    /\ first_order' = IF trees = <<>> THEN order ELSE first_order
    /\ reordered' = (reordered \/ (trees # <<>> /\ order # first_order))
    /\ UNCHANGED <<fs_dirs, git_ignore>>
    /\ UNCHANGED <<extract_type, varsFiles, varsSvg, varsContent, varsDeploy,
                   varsLink, varsStable, varsCompress, varsServe, varsWatch,
                   varsRace>>

NextTree == \E order \in EnumOrders : CommitAllTree(order)

SpecTree == InitTree /\ [][NextTree]_vars

\* The trees of a snapshot: the root tree and every tree below it.
RECURSIVE TreesIn(_)
TreesIn(tree) ==
    {tree} \cup UNION {TreesIn(tree[i].oid.tree) :
                          i \in {k \in 1..Len(tree) : tree[k].mode = "tree"}}

\* C16: in every tree object built, at every level, the entries are in
\* ascending order of their name bytes, a directory's name taken as if it
\* ended with '/', whatever order the directory was listed in.
C16_CanonicalOrder ==
    \A s \in 1..Len(trees) : \A tree \in TreesIn(trees[s]) :
        \A i, j \in 1..Len(tree) :
            i < j => BytesLess(
                        tree[i].filename \o (IF tree[i].mode = "tree"
                                             THEN <<"/">> ELSE <<>>),
                        tree[j].filename \o (IF tree[j].mode = "tree"
                                             THEN <<"/">> ELSE <<>>))

\* A root tree with the file a-b, the directory a and the file a0, in this
\* order, built from a listing that had them in another order.
C16_Witness ==
    /\ trees # <<>>
    /\ \E i \in 1..(Len(trees[1]) - 2) :
          /\ trees[1][i].filename = NameAB
          /\ trees[1][i + 1].filename = NameA /\ trees[1][i + 1].mode = "tree"
          /\ trees[1][i + 2].filename = NameA0
    /\ \E i, j \in 1..Len(first_order) :
          i < j /\ first_order[i] = NameA0 /\ first_order[j] = NameAB

\* C17: snapshots built over the unchanged directory have the same root
\* tree id, whatever order the entries are listed in on each run and
\* whatever the earlier runs left in .git.
C17_Idempotent ==
    \A i, j \in 1..Len(trees) : trees[i] = trees[j]

C17_Witness ==
    /\ Len(trees) = 2
    /\ reordered
    /\ Len(trees[1]) >= 3
    /\ <<DotGit, IndexFile>> \in fs_files

\* The paths a tree holds, at every depth.
RECURSIVE TreePaths(_, _)
TreePaths(tree, dir) ==
    UNION {{Append(dir, tree[i].filename)}
             \cup (IF tree[i].mode = "tree"
                   THEN TreePaths(tree[i].oid.tree, Append(dir, tree[i].filename))
                   ELSE {})
           : i \in 1..Len(tree)}

\* A pattern of the root .gitignore matches the path: a pattern without '/'
\* matches the last name at any depth, a pattern with '/' the path from the
\* root.
PatternMatches(pattern, path) ==
    IF Find(pattern, "/", 1) = 0 THEN path[Len(path)] = pattern
    ELSE RelPathText(path) = pattern

\* The path is excluded: it or a directory above it is a .git directory or
\* matches a pattern.
Excluded(path) ==
    \E n \in 1..Len(path) :
        LET above == SubSeq(path, 1, n)
        IN  \/ above[n] = DotGit /\ above \in fs_dirs
            \/ \E pattern \in git_ignore : PatternMatches(pattern, above)

\* C18: the tree built for the root holds, at every depth, exactly the files
\* and directories that are not a .git directory (nor inside one) and match
\* no pattern of the root .gitignore; a .gitignore below the root excludes
\* nothing.
C18_SnapshotContent ==
    \A s \in 1..Len(trees) :
        TreePaths(trees[s], <<>>)
            = {path \in fs_files \cup fs_dirs : ~Excluded(path)}

\* The files reachable from a root tree, with their blobs.
BlobsOf(tree) ==
    {[path |-> p, id |-> BlobId(p)] : p \in TreePaths(tree, <<>>) \cap fs_files}

\* C27: after commit_all the index written has exactly one entry per blob
\* reachable from the committed root tree, keyed by the blob's path from the
\* repository root: none for an ignored file, no two with the same path.
C27_IndexMatchesTree ==
    trees # <<>>
        => /\ {[path |-> index[i].path, id |-> index[i].id] :
                   i \in 1..Len(index)}
                = {[path |-> RelPathText(b.path), id |-> b.id] :
                     b \in BlobsOf(trees[Len(trees)])}
           /\ \A i, j \in 1..Len(index) :
                 i # j => index[i].path # index[j].path

----------------------------------------------------------------------------
\* C19: every commit written for a deploy has as its only parent the tip the
\* configured target branch had, and no parent when that branch was unborn,
\* for every configured branch name and across repeated deploys.
C19_CommitParent ==
    \A n \in 1..Len(commits) :
        commits[n].parents = IF commits[n].target_tip = 0 THEN <<>>
                             ELSE <<commits[n].target_tip>>

----------------------------------------------------------------------------
(* Stability poll: utils/watch.rs wait_until_stable, called by             *)
(* process_asset on the live-reload path.                                  *)

\* The largest max_retries tried besides the one process_asset passes.
MaxRetries == 2
\* process_asset: wait_until_stable(asset_path, 5).
AssetRetries == 5

\* The lengths the watched file takes while it is being written.
FileSizes == {0, 1, 2}

\* A loop test that lets one more iteration through.
LoopContinuesInclusive(r, max) == r <= max

\* while retries < max_retries
LoopContinues(r, max) == r < max

\* wait_until_stable(path, max_retries) is about to be called on a file
\* another program may still be writing.
InitStable ==
    /\ IdleRace
    /\ IdleWatch
    /\ IdleServe
    /\ IdleCompress
    /\ IdleFiles
    /\ IdleSvg
    /\ IdleContent
    /\ IdleDeploy
    /\ IdleLink
    /\ IdleTree
    /\ extract_type = "Builtin"
    /\ max_retries \in (0..MaxRetries) \cup {AssetRetries}
    /\ file_size \in FileSizes
    /\ file_exists \in BOOLEAN
    /\ last_size = 0
    /\ retries = 0
    /\ samples = <<>>
    /\ wus_pc = "call"
    /\ wus_res = "none"

UnchangedOutsideStable ==
    UNCHANGED <<extract_type, varsFiles, varsSvg, varsContent, varsDeploy,
                varsLink, varsTree, varsCompress, varsServe, varsWatch,
                varsRace>>

\* let mut last_size = fs::metadata(path)?.len(); let mut retries = 0;
WaitStart ==
    /\ wus_pc = "call"
    /\ IF file_exists
       THEN /\ last_size' = file_size
            /\ samples' = <<file_size>>
            /\ wus_pc' = "loop"
            /\ wus_res' = "none"
       ELSE /\ wus_pc' = "done"
            /\ wus_res' = "io"
            /\ UNCHANGED <<last_size, samples>>
    /\ retries' = 0
    /\ UNCHANGED <<max_retries, file_size, file_exists>>
    /\ UnchangedOutsideStable

\* One iteration of the loop: the sleep is over, the size is polled.
Poll ==
    /\ wus_pc = "loop"
    /\ LoopContinues(retries, max_retries)
    /\ IF ~file_exists
       THEN /\ wus_pc' = "done"
            /\ wus_res' = "io"
            /\ UNCHANGED <<last_size, retries, samples>>
       ELSE /\ samples' = Append(samples, file_size)
            /\ IF file_size = last_size
               THEN /\ wus_pc' = "done"
                    /\ wus_res' = "ok"
                    /\ UNCHANGED <<last_size, retries>>
               ELSE /\ last_size' = file_size
                    /\ retries' = retries + 1
                    /\ UNCHANGED <<wus_pc, wus_res>>
    /\ UNCHANGED <<max_retries, file_size, file_exists>>
    /\ UnchangedOutsideStable

\* The loop ends: bail!("File did not stabilize after {} retries").
Bail ==
    /\ wus_pc = "loop"
    /\ ~LoopContinues(retries, max_retries)
    /\ wus_pc' = "done"
    /\ wus_res' = "unstable"
    /\ UNCHANGED <<max_retries, file_size, file_exists, last_size, retries,
                   samples>>
    /\ UnchangedOutsideStable

\* The program that writes the file goes on while wait_until_stable sleeps.
FileWritten(n) ==
    /\ wus_pc \in {"call", "loop"}
    /\ file_exists
    /\ n # file_size
    /\ file_size' = n
    /\ UNCHANGED <<max_retries, file_exists, last_size, retries, samples,
                   wus_pc, wus_res>>
    /\ UnchangedOutsideStable

\* The file is removed while wait_until_stable sleeps.
FileRemoved ==
    /\ wus_pc \in {"call", "loop"}
    /\ file_exists
    /\ file_exists' = FALSE
    /\ UNCHANGED <<max_retries, file_size, last_size, retries, samples,
                   wus_pc, wus_res>>
    /\ UnchangedOutsideStable

WaitStep == WaitStart \/ Poll \/ Bail

NextStable ==
    \/ WaitStart
    \/ Poll
    \/ Bail
    \/ \E n \in FileSizes : FileWritten(n)
    \/ FileRemoved

SpecStable == InitStable /\ [][NextStable]_vars

\* The thread that runs wait_until_stable is scheduled: its sleep ends and
\* its next statement runs.
SpecStableFair == SpecStable /\ WF_vars(WaitStep)

\* The polls made inside the loop: every sample but the first.
PollCount == IF samples = <<>> THEN 0 ELSE Len(samples) - 1

\* The k-th poll differs from the sample before it.
PollDiffers(k) == samples[k + 1] # samples[k]

C21_Safety ==
    /\ PollCount <= max_retries
    /\ wus_res = "ok" =>
           /\ PollCount >= 1
           /\ ~PollDiffers(PollCount)
           /\ \A k \in 1..(PollCount - 1) : PollDiffers(k)
    /\ wus_res = "unstable" <=>
           /\ wus_pc = "done"
           /\ samples # <<>>
           /\ PollCount = max_retries
           /\ \A k \in 1..PollCount : PollDiffers(k)
    /\ wus_pc = "loop" => \A k \in 1..PollCount : PollDiffers(k)

\* C21: wait_until_stable(path, max_retries) terminates after at most
\* max_retries size polls; it returns Ok at the first poll whose size equals
\* the previous sample, and returns the stability error exactly when
\* max_retries consecutive polls each differ from the sample before them.
C21_BoundedPoll == []C21_Safety /\ <>(wus_pc = "done")

\* process_asset's call: five polls that all differ, then the stability error.
C21_Witness ==
    /\ max_retries = AssetRetries
    /\ wus_res = "unstable"
    /\ PollCount = AssetRetries

----------------------------------------------------------------------------
(* compress_svgs when the external raster tool fails: the deferred thread  *)
(* of one page, its rayon leaves, and the join in process_files.           *)

\* The most images a page hands to compress_svgs.
MaxImages == 3
\* The largest global rayon pool tried.
PoolThreads == 2

MaxOf(a, b) == IF a >= b THEN a ELSE b

\* rayon's bridge_producer_consumer over svgs.par_iter().enumerate(): the
\* LengthSplitter starts with current_num_threads() splits and halves them
\* at every split; a job that migrated to another thread gets them back.
\* The left side of a join is told it migrated when the join was injected
\* from a thread outside the pool, the right side when it was stolen. The
\* result is the set of possible sequences of leaves [lo, hi], each of
\* which one thread folds in index order.
RECURSIVE LeafSplits(_, _, _, _, _, _)
LeafSplits(lo, len, splits, migrated, injected, threads) ==
    LET rest == IF migrated THEN MaxOf(threads, splits \div 2)
                ELSE splits \div 2
        mid == len \div 2
        stolen == IF threads > 1 THEN BOOLEAN ELSE {FALSE}
    IN  IF len \div 2 >= 1 /\ (migrated \/ splits > 0)
        THEN {l \o r :
                l \in LeafSplits(lo, mid, rest, injected, FALSE, threads),
                r \in UNION {LeafSplits(lo + mid, len - mid, rest, st, FALSE,
                                        threads) : st \in stolen}}
        ELSE {<<[lo |-> lo, hi |-> lo + len - 1]>>}

\* The byte lengths of the images: below and above the 20KB threshold.
ImageLens == {19000, 25000}

ImageLists == UNION {[1..n -> ImageLens] : n \in 0..MaxImages}

\* compress_svgs: the branch taken for one image.
EffectiveType(et, size, max) ==
    IF et \in {"Builtin", "Magick", "Ffmpeg"} /\ size < max THEN "JustSvg"
    ELSE et

\* process_html has spawned the thread that runs compress_svgs; the call
\* svgs.par_iter().enumerate().for_each(..) was injected into the global pool.
InitCompress ==
    /\ IdleRace
    /\ IdleWatch
    /\ IdleServe
    /\ IdleStable
    /\ IdleFiles
    /\ IdleContent
    /\ IdleDeploy
    /\ IdleLink
    /\ IdleTree
    /\ extract_type \in ExtractSvgType
    /\ inline_max_size = [num |-> 20, suffix |-> "KB"]
    /\ svgs \in ImageLists
    /\ extract_type = "Embedded" => svgs = <<>>
    /\ raw_lens = <<>>
    /\ imgs = <<>>
    /\ inline_svgs = 0
    /\ svg_cnt = Len(svgs)
    /\ job = "spawned"
    /\ compressed = {}
    /\ out_files = {}
    /\ pool_threads \in 1..PoolThreads
    /\ leaves \in IF svgs = <<>> THEN {<<>>}
                  ELSE LeafSplits(1, Len(svgs), pool_threads, FALSE,
                                  TRUE, pool_threads)
    /\ leaf_next = [l \in 1..Len(leaves) |-> leaves[l].lo]
    /\ leaf_panicked = {}
    /\ failed = {}
    /\ c_html = FALSE
    /\ c_join = "none"

UnchangedOutsideCompress ==
    UNCHANGED <<extract_type, inline_max_size, raw_lens, svgs, imgs,
                inline_svgs, svg_cnt, pool_threads, leaves, varsFiles,
                varsContent, varsDeploy, varsLink, varsTree, varsStable,
                varsServe, varsWatch, varsRace>>

LeafRuns(l) ==
    /\ job = "spawned"
    /\ l \in 1..Len(leaves)
    /\ l \notin leaf_panicked
    /\ leaf_next[l] <= leaves[l].hi

\* The closure of for_each on the next image of a leaf: the file is written,
\* or the tool is spawned and fed and writes it.
LeafCompress(l) ==
    /\ LeafRuns(l)
    /\ out_files' = out_files \cup
          {JobFilename(extract_type, svgs[leaf_next[l]],
                       get_inline_max_size(inline_max_size), leaf_next[l] - 1)}
    /\ compressed' = compressed \cup {leaf_next[l]}
    /\ leaf_next' = [leaf_next EXCEPT ![l] = @ + 1]
    /\ UNCHANGED <<job, leaf_panicked, failed, c_html, c_join>>
    /\ UnchangedOutsideCompress

\* run_command_with_stdin!(..).unwrap() or child_stdin.write_all(..).unwrap()
\* panics: the fold of this leaf unwinds and takes none of its later images.
LeafToolFails(l) ==
    /\ LeafRuns(l)
    /\ EffectiveType(extract_type, svgs[leaf_next[l]],
                     get_inline_max_size(inline_max_size))
          \in {"Magick", "Ffmpeg"}
    /\ failed' = failed \cup {leaf_next[l]}
    /\ leaf_panicked' = leaf_panicked \cup {l}
    /\ UNCHANGED <<job, compressed, out_files, leaf_next, c_html, c_join>>
    /\ UnchangedOutsideCompress

\* for_each returns once every leaf has ended (rayon's join runs both sides
\* whatever happens) and resumes the panic of a leaf, if there was one.
CompressReturns ==
    /\ job = "spawned"
    /\ \A l \in 1..Len(leaves) :
          l \in leaf_panicked \/ leaf_next[l] > leaves[l].hi
    /\ job' = IF leaf_panicked = {} THEN "done" ELSE "panicked"
    /\ UNCHANGED <<compressed, out_files, leaf_next, leaf_panicked, failed,
                   c_html, c_join>>
    /\ UnchangedOutsideCompress

\* process_content: fs::write(&html_path, html_content) after process_html.
WritePageHtml ==
    /\ ~c_html
    /\ c_html' = TRUE
    /\ UNCHANGED <<job, compressed, out_files, leaf_next, leaf_panicked,
                   failed, c_join>>
    /\ UnchangedOutsideCompress

\* process_files: handle.join().ok() drops the panic of the thread.
JoinPageHandle ==
    /\ c_html
    /\ c_join = "none"
    /\ job \in {"done", "panicked"}
    /\ c_join' = "ok"
    /\ UNCHANGED <<job, compressed, out_files, leaf_next, leaf_panicked,
                   failed, c_html>>
    /\ UnchangedOutsideCompress

NextCompress ==
    \/ \E l \in 1..MaxImages : LeafCompress(l)
    \/ \E l \in 1..MaxImages : LeafToolFails(l)
    \/ CompressReturns
    \/ WritePageHtml
    \/ JoinPageHandle

SpecCompress == InitCompress /\ [][NextCompress]_vars

\* The file compress_svgs is to write for image i.
ImageFile(i) ==
    JobFilename(extract_type, svgs[i], get_inline_max_size(inline_max_size),
                i - 1)

\* C22: when the tool cannot be spawned or fed for one extracted image, the
\* other extracted images of the same page are still written, the page's
\* HTML stays written, and the build does not fail.
C22_FailureConfined ==
    (c_join = "ok" /\ Cardinality(failed) = 1)
        => /\ \A i \in (1..Len(svgs)) \ failed : ImageFile(i) \in out_files
           /\ c_html

----------------------------------------------------------------------------
(* Live-reload server: the task serve_site spawns around start_server, and *)
(* the watcher thread that waits for server_ready.                         *)

\* The most calls of start_server followed.
MaxBinds == 3
\* The most one-second sleeps of wait_for_server_ready followed.
MaxReadyPolls == 3

\* The text of the io::Error of a bind to a port in use.
AddrInUse == "Address already in use (os error 98)"

\* IpAddr::from_str(&config.serve.interface)?
AddrParseError == <<"invalid IP address syntax">>

\* TcpListener::bind(addr).await.with_context(..)?: the context is put in
\* front of the io::Error.
BindError == <<"[serve] Failed to bind to address", AddrInUse>>

\* axum::serve(..).await.context("[serve] failed to start")?
ServeError == <<"[serve] failed to start", "io error">>

\* anyhow::Error's to_string(): the outermost message of the chain.
ErrToString(err) == err[1]

\* is_nonrecoverable: only the text "address already in use" is recoverable.
is_nonrecoverable(err) == ErrToString(err) # "address already in use"

\* serve_site has spawned the server task and the watcher thread.
InitServe ==
    /\ IdleRace
    /\ IdleWatch
    /\ IdleStable
    /\ IdleCompress
    /\ IdleFiles
    /\ IdleSvg
    /\ IdleContent
    /\ IdleDeploy
    /\ IdleLink
    /\ IdleTree
    /\ extract_type = "Builtin"
    /\ interface_ok \in BOOLEAN
    /\ port_busy \in BOOLEAN
    /\ srv_pc = "start"
    /\ srv_err = <<>>
    /\ bind_calls = 0
    /\ retry_waits = 0
    /\ server_ready = FALSE
    /\ ready_polls = 0
    /\ watcher_pc = "waiting"
    /\ watch_enabled \in BOOLEAN
    /\ ctrl_c = FALSE
    /\ serve_res = "none"

UnchangedOutsideServe ==
    UNCHANGED <<extract_type, varsFiles, varsSvg, varsContent, varsDeploy,
                varsLink, varsTree, varsStable, varsCompress, varsWatch,
                varsRace>>

\* The loop body after start_server returned Err(err):
\* if is_nonrecoverable(&err, config) { return; } wait_for_retrying(&err, 2).await;
AfterError(err) ==
    /\ srv_err' = err
    /\ IF is_nonrecoverable(err)
       THEN /\ srv_pc' = "returned"
            /\ UNCHANGED retry_waits
       ELSE /\ srv_pc' = "start"
            /\ retry_waits' = retry_waits + 1

\* One iteration of `while let Err(err) = start_server(..).await`: up to
\* the point where the server serves, or through the handling of the error.
StartServer ==
    /\ srv_pc = "start"
    /\ bind_calls < MaxBinds
    /\ IF ~interface_ok
       THEN /\ AfterError(AddrParseError)
            /\ UNCHANGED <<bind_calls, server_ready>>
       ELSE /\ bind_calls' = bind_calls + 1
            /\ IF port_busy
               THEN /\ AfterError(BindError)
                    /\ UNCHANGED server_ready
               ELSE /\ srv_pc' = "serving"
                    /\ server_ready' = TRUE
                    /\ UNCHANGED <<srv_err, retry_waits>>
    /\ UNCHANGED <<interface_ok, port_busy, ready_polls, watcher_pc,
                   watch_enabled, ctrl_c, serve_res>>
    /\ UnchangedOutsideServe

\* axum::serve fails while serving: start_server returns Err.
ServeFails ==
    /\ srv_pc = "serving"
    /\ AfterError(ServeError)
    /\ UNCHANGED <<interface_ok, port_busy, bind_calls, server_ready,
                   ready_polls, watcher_pc, watch_enabled, ctrl_c, serve_res>>
    /\ UnchangedOutsideServe

\* with_graceful_shutdown(shutdown_signal()): after the interrupt the server
\* ends, start_server returns Ok and the loop of the task is over.
GracefulShutdown ==
    /\ srv_pc = "serving"
    /\ ctrl_c
    /\ srv_pc' = "returned"
    /\ UNCHANGED <<interface_ok, port_busy, srv_err, bind_calls, retry_waits,
                   server_ready, ready_polls, watcher_pc, watch_enabled,
                   ctrl_c, serve_res>>
    /\ UnchangedOutsideServe

\* tokio::signal::ctrl_c().await?; shutdown_tx.send(()): the send fails when
\* the watcher thread, which owns the receiver, has ended.
CtrlC ==
    /\ ~ctrl_c
    /\ ctrl_c' = TRUE
    /\ serve_res' = IF watcher_pc = "ended" THEN "err" ELSE "ok"
    /\ UNCHANGED <<interface_ok, port_busy, srv_pc, srv_err, bind_calls,
                   retry_waits, server_ready, ready_polls, watcher_pc,
                   watch_enabled>>
    /\ UnchangedOutsideServe

\* wait_for_server_ready: one test of the flag, then a sleep of a second or
\* the call of watch_for_changes_blocking, which returns at once when
\* config.serve.watch is off.
WatcherPoll ==
    /\ watcher_pc = "waiting"
    /\ IF server_ready
       THEN /\ watcher_pc' = IF watch_enabled THEN "watching" ELSE "ended"
            /\ UNCHANGED ready_polls
       ELSE /\ ready_polls < MaxReadyPolls
            /\ ready_polls' = ready_polls + 1
            /\ UNCHANGED watcher_pc
    /\ UNCHANGED <<interface_ok, port_busy, srv_pc, srv_err, bind_calls,
                   retry_waits, server_ready, watch_enabled, ctrl_c, serve_res>>
    /\ UnchangedOutsideServe

\* Another process takes or releases the port while the server has not
\* bound it.
PortChanges ==
    /\ srv_pc # "serving"
    /\ port_busy' = ~port_busy
    /\ UNCHANGED <<interface_ok, srv_pc, srv_err, bind_calls, retry_waits,
                   server_ready, ready_polls, watcher_pc, watch_enabled,
                   ctrl_c, serve_res>>
    /\ UnchangedOutsideServe

NextServe ==
    \/ StartServer
    \/ ServeFails
    \/ GracefulShutdown
    \/ CtrlC
    \/ WatcherPoll
    \/ PortChanges

SpecServe == InitServe /\ [][NextServe]_vars

\* C23: when start_server fails because the listen address cannot be bound,
\* serve_site does not give up: the server task has not returned, it waits
\* through the countdown and calls start_server again.
C23_BindRetry ==
    srv_err = BindError => (srv_pc # "returned" /\ retry_waits >= 1)

----------------------------------------------------------------------------
(* Watcher: the event loop of watch_for_changes_blocking with its debounce *)
(* filter, and process_watched_files on the batch of one event.            *)

\* const DEBOUNCE_MS: u64 = 50;
DEBOUNCE_MS == 50
\* wait_until_stable: let timeout = Duration::from_millis(50);
StablePollMs == 50
\* The step of the clock, in milliseconds.
TickMs == 25
\* The clock stops here.
MaxClock == 100
\* The most changes of source files followed.
MaxChanges == 2
\* The most events waiting in the channel.
MaxQueue == 2

\* The watched files: a page, a non-markup file next to it, two assets.
WPage == [dir |-> "content", name |-> "a", ext |-> "typ"]
WImage == [dir |-> "content", name |-> "pic", ext |-> "png"]
WCss == [dir |-> "assets", name |-> "style", ext |-> "css"]
WJs == [dir |-> "assets", name |-> "app", ext |-> "js"]

WatchedPaths == {WPage, WImage, WCss, WJs}

\* The paths one notify event names.
EventPaths ==
    {<<p>> : p \in WatchedPaths} \cup {<<WPage, WCss>>, <<WCss, WJs>>}

\* The kinds of notify events: a Create is filtered and handled as a Modify.
EventKinds == {"Modify", "Access"}

RECURSIVE SumOver(_, _)
SumOver(f, S) ==
    IF S = {} THEN 0
    ELSE LET x == CHOOSE y \in S : TRUE IN f[x] + SumOver(f, S \ {x})

\* should_process_event
should_process_event(event) == event.kind \in {"Modify", "Create"}

\* process_watched_files: p.exists() && p.extension() == "typ"
IsPostFile(p) == p.ext = "typ"

\* process_watched_files: p.starts_with(&config.build.assets)
IsAssetFile(p) == p.dir = "assets"

RangeOf(seq) == {seq[i] : i \in 1..Len(seq)}

\* The debounce filter on one path: dropped when the map holds a time less
\* than DEBOUNCE_MS before now.
Debounced(p, map, now) ==
    /\ p \in DOMAIN map
    /\ now - map[p] < DEBOUNCE_MS

\* serve_site's watcher thread enters the loop over rx; nothing was built
\* or changed since the build that preceded it.
InitWatch ==
    /\ IdleRace
    /\ IdleStable
    /\ IdleCompress
    /\ IdleServe
    /\ IdleFiles
    /\ IdleSvg
    /\ IdleContent
    /\ IdleDeploy
    /\ IdleLink
    /\ IdleTree
    /\ extract_type = "Builtin"
    /\ w_now = 0
    /\ w_queue = <<>>
    /\ last_events = <<>>
    /\ src_ver = [p \in WatchedPaths |-> 0]
    /\ out_ver = [p \in WatchedPaths |-> 0]
    /\ w_pc = "recv"
    /\ w_batch = <<>>
    /\ w_started = 0
    /\ w_done = {}
    /\ w_failed = {}
    /\ w_skip = NoSkip
    /\ w_unbuilt = {}

UnchangedOutsideWatch ==
    UNCHANGED <<extract_type, varsFiles, varsSvg, varsContent, varsDeploy,
                varsLink, varsTree, varsStable, varsCompress, varsServe,
                varsRace>>

\* Time passes.
Tick ==
    /\ w_now < MaxClock
    /\ w_now' = w_now + TickMs
    /\ UNCHANGED <<w_queue, last_events, src_ver, out_ver, w_pc, w_batch,
                   w_started, w_done, w_failed, w_skip, w_unbuilt>>
    /\ UnchangedOutsideWatch

\* A program writes the files `paths` (or only reads them: kind "Access");
\* notify sends the event into the channel.
SourceChanges(ev_kind, paths) ==
    /\ Len(w_queue) < MaxQueue
    /\ ev_kind # "Access"
          => SumOver(src_ver, WatchedPaths) + Len(paths) <= MaxChanges
    /\ src_ver' = [p \in WatchedPaths |->
                     IF ev_kind # "Access" /\ p \in RangeOf(paths)
                     THEN src_ver[p] + 1 ELSE src_ver[p]]
    /\ w_queue' = Append(w_queue, [kind |-> ev_kind, paths |-> paths])
    /\ UNCHANGED <<w_now, last_events, out_ver, w_pc, w_batch, w_started,
                   w_done, w_failed, w_skip, w_unbuilt>>
    /\ UnchangedOutsideWatch

\* One turn of `for res in rx` up to the call of handle_event: the event is
\* taken, its paths go through the debounce filter, which stamps the paths
\* it lets through.
ReceiveEvent ==
    /\ w_pc = "recv"
    /\ w_queue # <<>>
    /\ LET event == Head(w_queue)
           kept == IF should_process_event(event)
                   THEN SelectSeq(event.paths,
                            LAMBDA p : ~Debounced(p, last_events, w_now))
                   ELSE <<>>
           dropped == IF should_process_event(event)
                      THEN SelectSeq(event.paths,
                               LAMBDA p : Debounced(p, last_events, w_now))
                      ELSE <<>>
       IN  /\ w_queue' = Tail(w_queue)
           /\ last_events' =
                 [p \in DOMAIN last_events \cup RangeOf(kept) |->
                    IF p \in RangeOf(kept) THEN w_now ELSE last_events[p]]
           /\ w_skip' = IF dropped = <<>> THEN w_skip
                        ELSE [path |-> dropped[1].name, at |-> w_now,
                              last |-> last_events[dropped[1]]]
           /\ IF kept = <<>>
              THEN UNCHANGED <<w_pc, w_batch, w_started>>
              ELSE /\ w_pc' = "handling"
                   /\ w_batch' = kept
                   /\ w_started' = w_now
    /\ UNCHANGED <<w_now, src_ver, out_ver, w_done, w_failed, w_unbuilt>>
    /\ UnchangedOutsideWatch

\* handle_event: process_watched_files on the batch. `ran` are the files
\* whose closure of try_for_each was started, `bad` the ones that returned
\* Err; `job_failed` tells an Err of a page apart: the deferred job of the
\* page panicked (its HTML is written) or its compilation failed (it is not).
\* The first Err stops the files not yet started, and an Err of the content
\* stage returns before the asset stage. The error is logged and the loop
\* goes on.
HandleEvent(ran, bad, job_failed) ==
    /\ w_pc = "handling"
    /\ LET batch == RangeOf(w_batch)
           posts == {p \in batch : IsPostFile(p)}
           assets == {p \in batch : IsAssetFile(p)}
           content_err == bad \cap posts # {}
       IN  /\ bad \subseteq ran
           /\ ran \subseteq posts \cup assets
           /\ bad \cap posts = {} => posts \subseteq ran
           /\ content_err => ran \cap assets = {}
           /\ (~content_err /\ bad \cap assets = {}) => assets \subseteq ran
           \* wait_until_stable sleeps once at least before an asset is done
           /\ ran \cap assets # {} => w_now - w_started >= StablePollMs
           /\ job_failed => content_err
           /\ out_ver' = [p \in WatchedPaths |->
                 IF p \in ran \ bad THEN src_ver[p]
                 ELSE IF p \in bad \cap posts /\ job_failed THEN src_ver[p]
                 ELSE IF p \in bad \cap assets THEN 0
                 ELSE out_ver[p]]
           /\ w_done' = ran \ bad
           /\ w_failed' =
                 {[path |-> p,
                   why |-> IF IsPostFile(p)
                           THEN IF job_failed THEN "job_failed"
                                ELSE "compile_error"
                           ELSE "unstable"] : p \in bad}
           /\ w_unbuilt' = (w_unbuilt \ ran)
                              \cup bad \cup ((posts \cup assets) \ ran)
    /\ w_pc' = "recv"
    /\ UNCHANGED <<w_now, w_queue, last_events, src_ver, w_batch, w_started,
                   w_skip>>
    /\ UnchangedOutsideWatch

NextWatch ==
    \/ Tick
    \/ \E ev_kind \in EventKinds, paths \in EventPaths :
          SourceChanges(ev_kind, paths)
    \/ ReceiveEvent
    \/ \E ran \in SUBSET WatchedPaths, bad \in SUBSET WatchedPaths,
          job_failed \in BOOLEAN : HandleEvent(ran, bad, job_failed)

SpecWatch == InitWatch /\ [][NextWatch]_vars

\* C24: when in one batch one file hits a StabilityError or one page's
\* deferred job fails, the other changed files of that batch are still
\* processed, and the watcher is back in its loop for later events.
C24_SoftFailureConfined ==
    (/\ w_pc = "recv"
     /\ Cardinality(w_failed) = 1
     /\ \A f \in w_failed : f.why \in {"unstable", "job_failed"})
        => \A p \in RangeOf(w_batch) :
              ((IsPostFile(p) \/ IsAssetFile(p))
                  /\ p \notin {f.path : f \in w_failed})
                 => p \in w_done

\* C30: an event for path p is skipped only if an event for p was accepted
\* less than 50 ms earlier, and once the loop has caught up with the events
\* every changed file whose handler did not fail has an output built from
\* its last change.
C30_DebounceLosesNothing ==
    /\ w_skip # NoSkip => (w_skip.at - w_skip.last < DEBOUNCE_MS
                           /\ w_skip.at >= w_skip.last)
    /\ (w_pc = "recv" /\ w_queue = <<>>)
          => \A p \in WatchedPaths :
                (src_ver[p] > 0 /\ p \notin w_unbuilt)
                   => out_ver[p] = src_ver[p]

----------------------------------------------------------------------------
(* One build: process_content on the non-markup files of the content       *)
(* directory and process_asset on the assets, run by the two pipelines of  *)
(* build_site at the same time over one output directory.                  *)

\* The relative paths a file of either directory can have.
RelPaths == {"pic.png", "main.css"}

\* process_content: config.build.output.join(base_path).join(relative_asset_path)
ContentOutputPath(rel) == <<"output", "base_path", rel>>

\* process_asset: config.build.output.join(base_path).join(relative_asset_path)
AssetOutputPath(rel) == <<"output", "base_path", rel>>

OutputPaths ==
    {ContentOutputPath(r) : r \in RelPaths} \cup
    {AssetOutputPath(r) : r \in RelPaths}

NoFile == [ino |-> 0, data |-> "absent"]

\* build_site has cleared the output directory and spawned both pipelines.
InitRace ==
    /\ IdleStable
    /\ IdleCompress
    /\ IdleServe
    /\ IdleWatch
    /\ IdleFiles
    /\ IdleSvg
    /\ IdleContent
    /\ IdleDeploy
    /\ IdleLink
    /\ IdleTree
    /\ extract_type = "Builtin"
    /\ content_files \in SUBSET RelPaths
    /\ asset_files \in SUBSET RelPaths
    /\ c_pc = [r \in content_files |-> "copy"]
    /\ a_pc = [r \in asset_files |-> "exists"]
    /\ out = [p \in OutputPaths |-> NoFile]
    /\ c_fd = [r \in content_files |-> 0]
    /\ a_fd = [r \in asset_files |-> 0]
    /\ next_ino = 1
    /\ clobbered = {}

UnchangedOutsideRace ==
    UNCHANGED <<extract_type, varsFiles, varsSvg, varsContent, varsDeploy,
                varsLink, varsTree, varsStable, varsCompress, varsServe,
                varsWatch>>

\* fs::copy opens the destination: the file at `path` is truncated, or made
\* when there is none. The result is the file and the next free inode.
OpenTruncate(path) ==
    IF out[path] = NoFile
    THEN [file |-> [ino |-> next_ino, data |-> "empty"], next |-> next_ino + 1]
    ELSE [file |-> [ino |-> out[path].ino, data |-> "empty"], next |-> next_ino]

\* fs::copy writes the bytes to the inode it opened: the file at `path` holds
\* them when it still is that inode.
WriteTo(path, ino, data) ==
    [out EXCEPT ![path] = IF @.ino = ino THEN [ino |-> ino, data |-> data]
                          ELSE @]

\* process_content, non-markup file: fs::copy(content_path, output) begins.
ContentCopyOpen(rel) ==
    /\ rel \in content_files
    /\ c_pc[rel] = "copy"
    /\ LET path == ContentOutputPath(rel)
           opened == OpenTruncate(path)
       IN  /\ out' = [out EXCEPT ![path] = opened.file]
           /\ next_ino' = opened.next
           /\ c_fd' = [c_fd EXCEPT ![rel] = opened.file.ino]
           /\ clobbered' = IF out[path].data = "asset"
                           THEN clobbered \cup {path} ELSE clobbered
    /\ c_pc' = [c_pc EXCEPT ![rel] = "copying"]
    /\ UNCHANGED <<content_files, asset_files, a_pc, a_fd>>
    /\ UnchangedOutsideRace

\* fs::copy(content_path, output) ends; process_content returns Ok(None).
ContentCopyEnd(rel) ==
    /\ rel \in content_files
    /\ c_pc[rel] = "copying"
    /\ out' = WriteTo(ContentOutputPath(rel), c_fd[rel], "content")
    /\ c_pc' = [c_pc EXCEPT ![rel] = "done"]
    /\ UNCHANGED <<content_files, asset_files, a_pc, c_fd, a_fd, next_ino,
                   clobbered>>
    /\ UnchangedOutsideRace

\* process_asset: if output_path.exists()
AssetExists(rel) ==
    /\ rel \in asset_files
    /\ a_pc[rel] = "exists"
    /\ a_pc' = [a_pc EXCEPT ![rel] =
                  IF out[AssetOutputPath(rel)] # NoFile THEN "remove"
                  ELSE "copy"]
    /\ UNCHANGED <<content_files, asset_files, c_pc, out, c_fd, a_fd,
                   next_ino, clobbered>>
    /\ UnchangedOutsideRace

\* process_asset: fs::remove_file(&output_path)?   The output directory was
\* empty when the pipelines started, so the file removed is the one the
\* content pipeline made.
AssetRemove(rel) ==
    /\ rel \in asset_files
    /\ a_pc[rel] = "remove"
    /\ LET path == AssetOutputPath(rel)
       IN  /\ out' = [out EXCEPT ![path] = NoFile]
           /\ clobbered' = clobbered \cup {path}
    /\ a_pc' = [a_pc EXCEPT ![rel] = "copy"]
    /\ UNCHANGED <<content_files, asset_files, c_pc, c_fd, a_fd, next_ino>>
    /\ UnchangedOutsideRace

\* process_asset: fs::copy(asset_path, &output_path) begins.
AssetCopyOpen(rel) ==
    /\ rel \in asset_files
    /\ a_pc[rel] = "copy"
    /\ LET path == AssetOutputPath(rel)
           opened == OpenTruncate(path)
       IN  /\ out' = [out EXCEPT ![path] = opened.file]
           /\ next_ino' = opened.next
           /\ a_fd' = [a_fd EXCEPT ![rel] = opened.file.ino]
           /\ clobbered' = IF out[path] # NoFile
                           THEN clobbered \cup {path} ELSE clobbered
    /\ a_pc' = [a_pc EXCEPT ![rel] = "copying"]
    /\ UNCHANGED <<content_files, asset_files, c_pc, c_fd>>
    /\ UnchangedOutsideRace

\* fs::copy(asset_path, &output_path) ends; process_asset returns Ok(None).
AssetCopyEnd(rel) ==
    /\ rel \in asset_files
    /\ a_pc[rel] = "copying"
    /\ out' = WriteTo(AssetOutputPath(rel), a_fd[rel], "asset")
    /\ a_pc' = [a_pc EXCEPT ![rel] = "done"]
    /\ UNCHANGED <<content_files, asset_files, c_pc, c_fd, a_fd, next_ino,
                   clobbered>>
    /\ UnchangedOutsideRace

NextRace ==
    \/ \E rel \in RelPaths : ContentCopyOpen(rel)
    \/ \E rel \in RelPaths : ContentCopyEnd(rel)
    \/ \E rel \in RelPaths : AssetExists(rel)
    \/ \E rel \in RelPaths : AssetRemove(rel)
    \/ \E rel \in RelPaths : AssetCopyOpen(rel)
    \/ \E rel \in RelPaths : AssetCopyEnd(rel)

SpecRace == InitRace /\ [][NextRace]_vars

BothPipelinesDone ==
    /\ \A r \in content_files : c_pc[r] = "done"
    /\ \A r \in asset_files : a_pc[r] = "done"

\* C26: in no interleaving does one pipeline delete or overwrite the file
\* the other wrote, and when both have ended the file at the output path of
\* a relative path R holds the whole of one source, the same in every
\* schedule: the asset when there is one, else the content file.
C26_NoSharedOutputRace ==
    /\ clobbered = {}
    /\ BothPipelinesDone
          => \A r \in content_files \cup asset_files :
                out[AssetOutputPath(r)].data =
                   (IF r \in asset_files THEN "asset" ELSE "content")

====
